---- MODULE Spec2Model ----
(***************************************************************************)
(* Attendance classification, overtime computation and leave deduction of  *)
(* the hr_attendance_load_f18 module, as a state machine.                  *)
(*                                                                         *)
(* Instants are UTC seconds counted from 00:00 UTC of a Thursday (day 0),  *)
(* the way Odoo stores naive UTC datetimes.  Dates are day numbers.        *)
(* Stored computed fields are modelled as operators over the tables they   *)
(* depend on.  Float fields with digits are kept as scaled integers:       *)
(* minutes in 1/100 minute (digits (16,2)), days in 1/1000 day (digits     *)
(* (16,3)), rounded half up as the ORM rounds them.                        *)
(***************************************************************************)
EXTENDS Integers, Sequences, FiniteSets, TLC

VARIABLES
    attendance,      \* hr.attendance table: id -> record
    overtime,        \* hr.overtime table: id -> record
    deduction,       \* leave.deduction table: id -> record
    number_of_days,  \* hr.leave.allocation.number_of_days, in 1/1000 day
    config,          \* attendance.enhanced.config.get_config()
    punch_pool,      \* the instants the punch sources of this run deliver
    device,          \* attendance.device: the log on the terminal and last_log_timestamp
    report,          \* attendance.import: the counters of the last import
    cursor,          \* the open transactions of concurrent requests
    err              \* error raised by the last operation, "none" if it succeeded

vars == <<attendance, overtime, deduction, number_of_days, config, punch_pool, device, report, cursor, err>>

----------------------------------------------------------------------------
(* Bounds of the model *)

MaxAtt == 2
MaxManual == 1
MaxOt == 2
MaxDed == 2

AttIds == 1..MaxAtt
\* the ids of the records entered by hand
ManualIds == 1..MaxManual
OtIds == 1..MaxOt
DedIds == 1..MaxDed

(* Program constants *)

DaySec == 86400
TzOffsetSec == 25200
OtStartHour == 18
OtThresholdSec == 1800
WeekendCapSec == 14400
LongDaySec == 34200
HalfHour == 50

NULL == 0
NoTime == -1

Employees == {1}

----------------------------------------------------------------------------
(* Time *)

\* datetime.date() of a naive UTC datetime
UtcDate(t) == t \div DaySec

\* astimezone(tz).date() in the employee's zone (Asia/Ho_Chi_Minh, UTC+7)
LocalDate(t) == (t + TzOffsetSec) \div DaySec

\* tz.localize(datetime(y, m, d, h, mi, s)) as a UTC instant
LocalTime(d, h, mi, s) == d * DaySec + h * 3600 + mi * 60 + s - TzOffsetSec

\* date.weekday(): 0 = Monday .. 6 = Sunday; day 0 is a Thursday
Weekday(d) == (d + 3) % 7

\* the public holidays known to the holiday models: the Wednesday, day 6
HolidayDates == {6}

IsHoliday(date, employee) == date \in HolidayDates

\* the employee's resource calendar: dayofweek -> {<<hour_from, hour_to>>}
WorkCalendar == [wd \in 0..6 |-> IF wd <= 4 THEN {<<8, 12>>, <<13, 17>>} ELSE {}]

SetMin(S) == CHOOSE x \in S : \A y \in S : x <= y
SetMax(S) == CHOOSE x \in S : \A y \in S : x >= y

RECURSIVE SetSum(_)
SetSum(S) == IF S = {} THEN 0
             ELSE LET x == CHOOSE y \in S : TRUE IN x[2] + SetSum(S \ {x})

\* float_round(seconds / 60.0, 2) in 1/100 minute
RoundMinutes(sec) == (sec * 10 + 3) \div 6

\* float_round(total_minutes / 480.0, 3) in 1/1000 day, from 1/100 minute
RoundDays(cmin) == (cmin + 24) \div 48

----------------------------------------------------------------------------
(* Punch instants.  A run draws its instants from one pool. *)

\* around the scheduled start 08:00 and end 17:00 of a Monday
PoolGrace == { LocalTime(4, 8, 10, 0), LocalTime(4, 8, 20, 0),
               LocalTime(4, 16, 50, 0), LocalTime(4, 17, 0, 0) }

\* around 18:30, half an hour after the overtime start of a Monday
PoolThreshold == { LocalTime(4, 8, 0, 0), LocalTime(4, 10, 0, 0),
                   LocalTime(4, 18, 29, 59), LocalTime(4, 18, 30, 0) }

\* a Monday that starts before 07:00 local, on the UTC Sunday
PoolZone == { LocalTime(4, 6, 30, 0), LocalTime(4, 15, 0, 0), LocalTime(4, 19, 0, 0) }

\* a Monday with overtime and the Tuesday after it
PoolMove == { LocalTime(4, 8, 0, 0), LocalTime(4, 19, 0, 0), LocalTime(5, 8, 0, 0) }

\* a Saturday
PoolWeekend == { LocalTime(2, 6, 30, 0), LocalTime(2, 9, 0, 0), LocalTime(2, 9, 20, 0) }

\* the Wednesday that is a public holiday
PoolHoliday == { LocalTime(6, 8, 0, 0), LocalTime(6, 17, 0, 0), LocalTime(6, 18, 30, 0) }

\* the punches of a Monday on the terminal: two arrivals, a departure at the
\* scheduled end and one after it
PoolDevice == { LocalTime(4, 8, 10, 0), LocalTime(4, 8, 20, 0),
                LocalTime(4, 17, 0, 0), LocalTime(4, 17, 30, 0) }

Pools == {PoolGrace, PoolThreshold, PoolZone, PoolMove, PoolWeekend, PoolHoliday}

\* the dates (UTC or local) the instants of a pool fall on
PoolDates(pool) == {UtcDate(t) : t \in pool} \cup {LocalDate(t) : t \in pool}

GracePeriods == {10, 15}

----------------------------------------------------------------------------
(* Records *)

EmptyAtt == [exists |-> FALSE, employee_id |-> NULL, check_in |-> NoTime,
             check_out |-> NoTime, overtime_id |-> NULL, leave_deduction_id |-> NULL,
             missing_check_in |-> FALSE, missing_request_state |-> "none",
             import_source |-> "manual"]

EmptyOt == [exists |-> FALSE, employee_id |-> NULL, date |-> NoTime, state |-> "draft"]

EmptyDed == [exists |-> FALSE, employee_id |-> NULL, date |-> NoTime, attendance_id |-> NULL,
             deduction_type |-> "none", late_minutes |-> 0, early_minutes |-> 0,
             state |-> "draft", leave_allocation_id |-> NULL]

\* an attendance.device that has recorded no punch and was never pulled
NoDevice == [log |-> {}, last_log_timestamp |-> NoTime, last_pull_success |-> FALSE]

\* an attendance.import that has processed nothing
NoReport == [total_records |-> 0, processed_records |-> 0, failed_records |-> 0,
             skipped_records |-> 0]

\* hr.leave.allocation rows of the employee (all in state 'validate')
Allocations == [ i \in {1, 2} |->
    IF i = 1 THEN [employee_id |-> 1, fixed |-> TRUE, date_from |-> 0, date_to |-> 7]
             ELSE [employee_id |-> 1, fixed |-> FALSE, date_from |-> 1, date_to |-> 7] ]

AllocIds == DOMAIN Allocations

InitialDays == [a \in AllocIds |-> IF a = 1 THEN {0, 10} ELSE {0, 1000}]

\* the requests that can run at the same time
Requests == {1, 2}

\* no request is in a transaction
NoCursor == [p \in Requests |->
                [open |-> FALSE, deduction_id |-> NULL,
                 deduction |-> [d \in DedIds |-> EmptyDed],
                 number_of_days |-> [a \in AllocIds |-> 0]]]

----------------------------------------------------------------------------
(* hr.attendance: computed fields *)

\* calendar._work_intervals_batch for the day, as UTC instants
WorkIntervals(d) ==
    { <<LocalTime(d, h[1], 0, 0), LocalTime(d, h[2], 0, 0)>> : h \in WorkCalendar[Weekday(d)] }

\* _compute_schedule_times: the schedule of check_in.date(), the UTC date
ScheduledCheckIn(a) ==
    LET First(iv) == IF iv = {} THEN NoTime ELSE SetMin({i[1] : i \in iv})
    IN IF a.check_in = NoTime \/ a.employee_id = NULL THEN NoTime
       ELSE First(WorkIntervals(UtcDate(a.check_in)))

ScheduledCheckOut(a) ==
    LET Last(iv) == IF iv = {} THEN NoTime ELSE SetMax({i[2] : i \in iv})
    IN IF a.check_in = NoTime \/ a.employee_id = NULL THEN NoTime
       ELSE Last(WorkIntervals(UtcDate(a.check_in)))

\* _compute_time_deviations, in 1/100 minute
LateMinutes(a) ==
    LET Late(scheduled) ==
            IF scheduled # NoTime /\ a.check_in # NoTime /\ a.check_in > scheduled
            THEN RoundMinutes(a.check_in - scheduled)
            ELSE 0
    IN Late(ScheduledCheckIn(a))

EarlyMinutes(a) ==
    LET Early(scheduled) ==
            IF scheduled # NoTime /\ a.check_out # NoTime /\ a.check_out < scheduled
            THEN RoundMinutes(scheduled - a.check_out)
            ELSE 0
    IN Early(ScheduledCheckOut(a))

\* worked_hours of the base model, in seconds
WorkedSeconds(a) ==
    IF a.check_in # NoTime /\ a.check_out # NoTime THEN a.check_out - a.check_in ELSE 0

\* _compute_daily_ot: per record, on the local weekday of the check-in
DailyOtSeconds(a) ==
    LET Ot(d, overtime_start) ==
            IF Weekday(d) <= 4
            THEN IF a.check_out > overtime_start /\ a.check_out - overtime_start >= OtThresholdSec
                 THEN a.check_out - overtime_start
                 ELSE 0
            ELSE IF a.check_out - a.check_in > 0
                 THEN SetMin({a.check_out - a.check_in, WeekendCapSec})
                 ELSE 0
    IN IF a.check_in = NoTime \/ a.check_out = NoTime THEN 0
       ELSE Ot(LocalDate(a.check_in), LocalTime(LocalDate(a.check_in), OtStartHour, 0, 0))

----------------------------------------------------------------------------
(* hr.overtime: computed fields *)

\* _compute_daily_ot_seconds(employee, date, attendances), atts a set of records
ComputeDailyOtSeconds(date, atts) ==
    LET Weekday_(last_out, overtime_start) ==
            IF last_out # NoTime /\ last_out > overtime_start
               /\ last_out - overtime_start >= OtThresholdSec
            THEN last_out - overtime_start
            ELSE 0
        Weekend(total) == IF total > 0 THEN SetMin({total, WeekendCapSec}) ELSE 0
    IN IF Weekday(date) <= 4
       THEN Weekday_(SetMax({NoTime} \cup { a.check_out : a \in { x \in atts :
                                 x.check_out # NoTime /\ LocalDate(x.check_out) = date } }),
                     LocalTime(date, OtStartHour, 0, 0))
       ELSE Weekend(SetSum({ <<a, a.check_out - a.check_in>> :
                             a \in { x \in atts : x.check_in # NoTime /\ x.check_out # NoTime
                                                  /\ LocalDate(x.check_in) = date
                                                  /\ x.check_out - x.check_in > 0 } }))

\* attendance_ids: the One2many inverse of hr.attendance.overtime_id
AttendanceIds(att, o) == { att[i] : i \in { j \in AttIds : att[j].exists /\ att[j].overtime_id = o } }

\* _compute_ot_fields: ot_seconds of overtime record o
OtSeconds(att, ot, o) ==
    LET Weekday_(last_out, overtime_start) ==
            IF last_out # NoTime /\ last_out > overtime_start
               /\ last_out - overtime_start >= OtThresholdSec
            THEN last_out - overtime_start
            ELSE 0
        Weekend(total) == IF total > 0 THEN SetMin({total, WeekendCapSec}) ELSE 0
        Of(date, atts) ==
            IF Weekday(date) <= 4
            THEN Weekday_(SetMax({NoTime} \cup { a.check_out : a \in { x \in atts :
                                 x.check_out # NoTime /\ LocalDate(x.check_out) = date } }),
                          LocalTime(date, OtStartHour, 0, 0))
            ELSE Weekend(SetSum({ <<a, a.check_out - a.check_in>> :
                             a \in { x \in atts : x.check_in # NoTime /\ x.check_out # NoTime
                                                  /\ LocalDate(x.check_in) = date
                                                  /\ x.check_out - x.check_in > 0 } }))
    IN IF ot[o].employee_id = NULL \/ ot[o].date = NoTime THEN 0
       ELSE Of(ot[o].date, AttendanceIds(att, o))

\* _compute_overtime_hours: ot_seconds / 3600.0 with digits (16,2), in 1/100 hour
OvertimeHours(att, ot, o) == (OtSeconds(att, ot, o) + 18) \div 36

\* _compute_overtime_type
OvertimeType(ot, o) ==
    IF ot[o].date = NoTime THEN "weekday"
    ELSE IF IsHoliday(ot[o].date, ot[o].employee_id) THEN "holiday"
    ELSE IF Weekday(ot[o].date) >= 5 THEN "weekend"
    ELSE "weekday"

----------------------------------------------------------------------------
(* hr.attendance: status *)

\* a lateness test that already counts a delay equal to the grace period
IsLateAtGrace(late_minutes, grace) == late_minutes >= grace * 100

\* is_late: grace applies to the check-in only; is_early is strict
IsLate(late_minutes, grace) == late_minutes > grace * 100

IsEarly(early_minutes) == early_minutes > 0

\* _compute_attendance_status of hr_attendance.py; grace in minutes
AttendanceStatus(att, ot, a, grace) ==
    LET Classify(is_weekend_or_holiday, ot_hours, ot_secs, worked, schedule_exists,
                 is_late, is_early) ==
            IF (IF is_weekend_or_holiday
                THEN worked > 0 \/ ot_hours > 0 \/ ot_secs > 0
                ELSE ot_hours >= HalfHour \/ ot_secs >= OtThresholdSec \/ worked > LongDaySec)
            THEN "overtime"
            ELSE IF ~schedule_exists THEN "normal"
            ELSE IF is_late /\ is_early THEN "both_issues"
            ELSE IF is_late THEN "late_in"
            ELSE IF is_early THEN "early_out"
            ELSE "normal"
    IN IF a.check_in = NoTime /\ a.check_out = NoTime THEN "missing_in"
       ELSE IF a.check_in = NoTime
       THEN IF IsEarly(EarlyMinutes(a)) THEN "early_missing_in" ELSE "missing_in"
       ELSE IF a.check_out = NoTime
       THEN IF ScheduledCheckIn(a) # NoTime /\ IsLate(LateMinutes(a), grace)
            THEN "late_missing_out" ELSE "missing_out"
       ELSE Classify(IF a.overtime_id # NULL
                     THEN OvertimeType(ot, a.overtime_id) \in {"weekend", "holiday"}
                     ELSE Weekday(UtcDate(a.check_in)) \in {5, 6},
                     IF a.overtime_id # NULL THEN OvertimeHours(att, ot, a.overtime_id) ELSE 0,
                     DailyOtSeconds(a),
                     WorkedSeconds(a),
                     ScheduledCheckIn(a) # NoTime /\ ScheduledCheckOut(a) # NoTime,
                     IsLate(LateMinutes(a), grace),
                     IsEarly(EarlyMinutes(a)))

\* _compute_attendance_status of the hr.attendance extension in
\* overtime_calculation.py: the expected times are those of the calendar on
\* check_in.date(), as naive datetimes
ComputeAttendanceStatus(att, ot, a, grace) ==
    LET IsOvertime ==
            /\ a.overtime_id # NULL
            /\ \/ OvertimeHours(att, ot, a.overtime_id) >= HalfHour
               \/ OvertimeType(ot, a.overtime_id) \in {"weekend", "holiday"}
        Scheduled(expected_in, expected_out) ==
            IF a.missing_check_in THEN "missing_in"
            ELSE IF a.check_out = NoTime THEN "missing_out"
            ELSE IF (IF grace > 0 THEN a.check_in > expected_in + grace * 60
                     ELSE a.check_in > expected_in)
            THEN "late_in"
            ELSE IF a.check_out < expected_out THEN "early_out"
            ELSE IF IsOvertime THEN "overtime"
            ELSE "normal"
        Status(date, schedule) ==
            IF schedule = {}
            THEN IF a.check_out = NoTime THEN "missing_out"
                 ELSE IF IsOvertime THEN "overtime"
                 ELSE "normal"
            ELSE Scheduled(date * DaySec + SetMin({h[1] : h \in schedule}) * 3600,
                           date * DaySec + SetMax({h[2] : h \in schedule}) * 3600)
    IN IF a.check_in = NoTime \/ a.employee_id = NULL THEN "normal"
       ELSE Status(UtcDate(a.check_in), WorkCalendar[Weekday(UtcDate(a.check_in))])

----------------------------------------------------------------------------
(* hr.overtime: search, constraint and recomputation *)

\* the smallest unused id of a table, NULL when the table is full
FreeId(tbl, ids) ==
    IF \E i \in ids : ~tbl[i].exists THEN SetMin({i \in ids : ~tbl[i].exists}) ELSE NULL

\* HrOvertime.search without the overtime_any context key: the rows it lets through
VisibleOvertime(att, ot, o) ==
    OvertimeHours(att, ot, o) >= HalfHour \/ OvertimeType(ot, o) \in {"weekend", "holiday"}

\* _check_unique_date_employee on record o: TRUE when the constraint passes
CheckUniqueDateEmployee(att, ot, o) ==
    ~ \E p \in OtIds \ {o} :
          /\ ot[p].exists
          /\ ot[p].employee_id = ot[o].employee_id
          /\ ot[p].date = ot[o].date
          /\ VisibleOvertime(att, ot, p)

\* search([employee_id, date]) with overtime_any: every row of the key
OvertimeOfDay(ot, e, date) ==
    { o \in OtIds : ot[o].exists /\ ot[o].employee_id = e /\ ot[o].date = date }

\* limit=1 of that search: any one row of the key, NULL when there is none
OvertimePick(ot, e, date) ==
    IF OvertimeOfDay(ot, e, date) = {} THEN {NULL} ELSE OvertimeOfDay(ot, e, date)

\* search([employee_id, check_in >= date, check_in < date + 1 day]): a UTC window
DayAttendances(att, e, date) ==
    { i \in AttIds : /\ att[i].exists
                     /\ att[i].employee_id = e
                     /\ att[i].check_in # NoTime
                     /\ att[i].check_in >= date * DaySec
                     /\ att[i].check_in < (date + 1) * DaySec }

\* unlink of overtime row o; Many2one overtime_id is set null by the database
UnlinkOvertime(att, ot, o) ==
    [att |-> [i \in AttIds |-> IF att[i].overtime_id = o
                               THEN [att[i] EXCEPT !.overtime_id = NULL] ELSE att[i]],
     ot |-> [ot EXCEPT ![o] = EmptyOt]]

\* _calculate_employee_overtime(employee, date); pick is the row the first search returned
CalculateEmployeeOvertime(att, ot, e, date, pick) ==
    LET Unlinked(ids) ==
            [i \in AttIds |-> IF i \in ids THEN [att[i] EXCEPT !.overtime_id = NULL] ELSE att[i]]
        Written(o) ==
            [ot EXCEPT ![o] = [exists |-> TRUE, employee_id |-> e, date |-> date,
                               state |-> IF pick # NULL THEN ot[pick].state ELSE "draft"]]
        Dropped(u) == [att |-> u.att, ot |-> u.ot, ret |-> NULL, err |-> "none"]
        Drop(unlinked) ==
            IF pick # NULL /\ ot[pick].state = "draft"
            THEN Dropped(UnlinkOvertime(unlinked, ot, pick))
            ELSE [att |-> unlinked, ot |-> ot, ret |-> NULL, err |-> "none"]
        Save(ids, o) ==
            IF o = NULL THEN [att |-> att, ot |-> ot, ret |-> NULL, err |-> "bound"]
            ELSE IF ~CheckUniqueDateEmployee(att, Written(o), o)
            THEN [att |-> att, ot |-> ot, ret |-> NULL, err |-> "duplicate_overtime"]
            ELSE [att |-> [i \in AttIds |-> IF i \in ids THEN [att[i] EXCEPT !.overtime_id = o]
                                            ELSE att[i]],
                  ot |-> Written(o), ret |-> o, err |-> "none"]
        Calc(ids, ot_secs) ==
            IF ids = {} THEN [att |-> att, ot |-> ot, ret |-> pick, err |-> "none"]
            ELSE IF (Weekday(date) <= 4 /\ ot_secs < OtThresholdSec)
                    \/ (Weekday(date) >= 5 /\ ot_secs <= 0)
            THEN Drop(Unlinked(ids))
            ELSE Save(ids, IF pick # NULL THEN pick ELSE FreeId(ot, OtIds))
    IN Calc(DayAttendances(att, e, date),
            ComputeDailyOtSeconds(date, {att[i] : i \in DayAttendances(att, e, date)}))

\* HrAttendance._process_overtime on record i: the overtime of check_in.date()
ProcessOvertime(att, ot, i, pick) ==
    LET Link(r) == IF r.err = "none" /\ r.ret # NULL
                   THEN [r EXCEPT !.att = [r.att EXCEPT ![i].overtime_id = r.ret]]
                   ELSE r
    IN IF att[i].check_in = NoTime THEN [att |-> att, ot |-> ot, ret |-> NULL, err |-> "none"]
       ELSE Link(CalculateEmployeeOvertime(att, ot, att[i].employee_id,
                                           UtcDate(att[i].check_in), pick))

----------------------------------------------------------------------------
(* leave.deduction *)

Positive(x) == IF x > 0 THEN x ELSE 0

\* _compute_total_minutes and _compute_deduction_days, in 1/1000 day
DeductionDays(rec) ==
    IF rec.late_minutes + rec.early_minutes > 0
    THEN RoundDays(rec.late_minutes + rec.early_minutes)
    ELSE 0

DeductionVals(a, i, type, late, early) ==
    [exists |-> TRUE, employee_id |-> a.employee_id,
     date |-> UtcDate(IF a.check_in # NoTime THEN a.check_in ELSE a.check_out),
     attendance_id |-> i, deduction_type |-> type, late_minutes |-> late,
     early_minutes |-> early, state |-> "draft", leave_allocation_id |-> NULL]

\* a search by attendance_id that finds nothing
NoDeductionsOf(ded, i) == {}

\* search([('attendance_id', '=', i)]) on leave.deduction
DeductionsOf(ded, i) == { x \in DedIds : ded[x].exists /\ ded[x].attendance_id = i }

\* _check_unique_attendance on a record about to be stored for attendance i:
\* TRUE when no other deduction refers to the attendance
CheckUniqueAttendance(ded, i) == DeductionsOf(ded, i) = {}

\* leave.deduction create(vals) with its constraint
CreateDeduction(ded, vals) ==
    LET Insert(d) ==
            IF d = NULL THEN [ded |-> ded, id |-> NULL, err |-> "bound"]
            ELSE IF ~CheckUniqueAttendance(ded, vals.attendance_id)
            THEN [ded |-> ded, id |-> NULL, err |-> "duplicate_deduction"]
            ELSE [ded |-> [ded EXCEPT ![d] = vals], id |-> d, err |-> "none"]
    IN Insert(FreeId(ded, DedIds))

\* _get_deduction_type
GetDeductionType(late, early) ==
    IF late > 0 /\ early > 0 THEN "both" ELSE IF late > 0 THEN "late_in" ELSE "early_out"

\* the values HrAttendance._process_leave_deduction creates, EmptyDed when it creates nothing
AttendanceDeductionVals(att, ot, i, grace) ==
    LET Vals(a, status, late_minutes, early_minutes, late, early) ==
            IF status \in {"missing_out", "late_missing_out"}
            THEN IF late_minutes # 0 /\ ScheduledCheckIn(a) # NoTime /\ late > 0
                 THEN DeductionVals(a, i, "late_in", late, 0)
                 ELSE DeductionVals(a, i, "missing_out", 0, 0)
            ELSE IF status \in {"missing_in", "early_missing_in"}
            THEN IF early_minutes # 0 /\ ScheduledCheckOut(a) # NoTime /\ a.check_out # NoTime
                    /\ early > 0
                 THEN DeductionVals(a, i, "early_out", 0, early)
                 ELSE DeductionVals(a, i, "missing_in", 0, 0)
            ELSE IF late > 0 \/ early > 0
            THEN DeductionVals(a, i, GetDeductionType(late, early), late, early)
            ELSE EmptyDed
    IN IF att[i].leave_deduction_id # NULL THEN EmptyDed
       ELSE IF (att[i].missing_check_in \/ att[i].check_out = NoTime)
               /\ att[i].missing_request_state = "approved"
       THEN EmptyDed
       ELSE Vals(att[i], AttendanceStatus(att, ot, att[i], grace),
                 LateMinutes(att[i]), EarlyMinutes(att[i]),
                 Positive(LateMinutes(att[i]) - grace * 100), Positive(EarlyMinutes(att[i])))

\* HrAttendance._process_leave_deduction on record i
ProcessLeaveDeduction(att, ot, ded, i, grace) ==
    LET Linked(r) ==
            IF r.err # "none" THEN [att |-> att, ded |-> ded, err |-> r.err]
            ELSE [att |-> [att EXCEPT ![i].leave_deduction_id = r.id], ded |-> r.ded,
                  err |-> "none"]
        Make(vals) == IF ~vals.exists THEN [att |-> att, ded |-> ded, err |-> "none"]
                      ELSE Linked(CreateDeduction(ded, vals))
    IN Make(AttendanceDeductionVals(att, ot, i, grace))

\* search(..., order='date_from desc', limit=1) over allocation ids
LatestAllocation(S) ==
    IF S = {} THEN NULL
    ELSE CHOOSE a \in S : \A b \in S : Allocations[a].date_from >= Allocations[b].date_from

\* _find_leave_allocation
FindLeaveAllocation(days, rec) ==
    LET Pick(annual) ==
            IF annual # NULL THEN annual
            ELSE LatestAllocation({ a \in AllocIds :
                     Allocations[a].employee_id = rec.employee_id /\ days[a] > 0 })
    IN Pick(LatestAllocation({ a \in AllocIds : /\ Allocations[a].employee_id = rec.employee_id
                                                /\ Allocations[a].fixed
                                                /\ Allocations[a].date_from <= rec.date
                                                /\ Allocations[a].date_to >= rec.date
                                                /\ days[a] > 0 }))

\* action_deduct without its check of the source state
DeductFromAnyState(ded, days, d) ==
    LET Debit(allocation, amount) ==
            IF allocation = NULL THEN [ded |-> ded, days |-> days, err |-> "no_allocation"]
            ELSE IF days[allocation] < amount
            THEN [ded |-> ded, days |-> days, err |-> "insufficient_balance"]
            ELSE [ded |-> [ded EXCEPT ![d].state = "deducted",
                                      ![d].leave_allocation_id = allocation],
                  days |-> [days EXCEPT ![allocation] = @ - amount],
                  err |-> "none"]
    IN IF DeductionDays(ded[d]) <= 0 THEN [ded |-> ded, days |-> days, err |-> "no_days"]
       ELSE Debit(FindLeaveAllocation(days, ded[d]), DeductionDays(ded[d]))

\* action_deduct on deduction d
Deduct(ded, days, d) ==
    LET Debit(allocation, amount) ==
            IF allocation = NULL THEN [ded |-> ded, days |-> days, err |-> "no_allocation"]
            ELSE IF days[allocation] < amount
            THEN [ded |-> ded, days |-> days, err |-> "insufficient_balance"]
            ELSE [ded |-> [ded EXCEPT ![d].state = "deducted",
                                      ![d].leave_allocation_id = allocation],
                  days |-> [days EXCEPT ![allocation] = @ - amount],
                  err |-> "none"]
    IN IF ded[d].state # "confirmed" THEN [ded |-> ded, days |-> days, err |-> "state_error"]
       ELSE IF DeductionDays(ded[d]) <= 0 THEN [ded |-> ded, days |-> days, err |-> "no_days"]
       ELSE Debit(FindLeaveAllocation(days, ded[d]), DeductionDays(ded[d]))

\* action_confirm that stops at 'confirmed' for every type
ConfirmWithoutDebit(ded, days, d) ==
    IF ded[d].state # "draft" THEN [ded |-> ded, days |-> days, err |-> "state_error"]
    ELSE [ded |-> [ded EXCEPT ![d].state = "confirmed"], days |-> days, err |-> "none"]

\* action_confirm on deduction d; on an error of the debit, ded is the table at the raise
Confirm(ded, days, d) ==
    IF ded[d].state # "draft" THEN [ded |-> ded, days |-> days, err |-> "state_error"]
    ELSE IF ded[d].deduction_type \in {"late_in", "early_out", "both"}
    THEN Deduct([ded EXCEPT ![d].state = "confirmed"], days, d)
    ELSE [ded |-> [ded EXCEPT ![d].state = "confirmed"], days |-> days, err |-> "none"]

\* action_cancel that restores the days whatever the state of the deduction
CancelRestoringAlways(ded, days, d) ==
    [ded |-> [ded EXCEPT ![d].state = "cancelled"],
     days |-> IF ded[d].leave_allocation_id # NULL
              THEN [days EXCEPT ![ded[d].leave_allocation_id] = @ + DeductionDays(ded[d])]
              ELSE days,
     err |-> "none"]

\* action_cancel on deduction d
Cancel(ded, days, d) ==
    [ded |-> [ded EXCEPT ![d].state = "cancelled"],
     days |-> IF ded[d].state = "deducted" /\ ded[d].leave_allocation_id # NULL
              THEN [days EXCEPT ![ded[d].leave_allocation_id] = @ + DeductionDays(ded[d])]
              ELSE days,
     err |-> "none"]

----------------------------------------------------------------------------
(* leave.deduction: the daily job *)

JobStatuses == {"late_in", "early_out", "missing_in", "missing_out",
                "late_missing_out", "early_missing_in"}

InDay(t, date) == t # NoTime /\ t >= date * DaySec /\ t < (date + 1) * DaySec

\* the search of process_daily_deductions
JobAttendances(att, ot, date, grace) ==
    { i \in AttIds : /\ att[i].exists
                     /\ (InDay(att[i].check_in, date) \/ InDay(att[i].check_out, date))
                     /\ AttendanceStatus(att, ot, att[i], grace) \in JobStatuses }

\* the values LeaveDeduction._process_attendance_deduction creates, EmptyDed for none
JobDeductionVals(att, ot, i, grace) ==
    LET Vals(a, status, late, early) ==
            IF status = "late_missing_out"
            THEN IF late > 0 THEN DeductionVals(a, i, "late_in", late, 0)
                 ELSE DeductionVals(a, i, "missing_out", 0, 0)
            ELSE IF status = "early_missing_in"
            THEN IF early > 0 THEN DeductionVals(a, i, "early_out", 0, early)
                 ELSE DeductionVals(a, i, "missing_in", 0, 0)
            ELSE IF status \in {"missing_in", "missing_out"}
            THEN DeductionVals(a, i, status, 0, 0)
            ELSE IF late <= 0 /\ early <= 0 THEN EmptyDed
            ELSE DeductionVals(a, i, GetDeductionType(late, early), late, early)
    IN IF (att[i].missing_check_in \/ att[i].check_out = NoTime)
          /\ att[i].missing_request_state = "approved"
       THEN EmptyDed
       ELSE Vals(att[i], AttendanceStatus(att, ot, att[i], grace),
                 Positive(LateMinutes(att[i]) - grace * 100), Positive(EarlyMinutes(att[i])))

\* _process_attendance_deduction(attendance i) under the try/except of the job:
\* what was written before a raise stays written
ProcessAttendanceDeduction(att, ot, ded, days, i, cfg) ==
    LET Confirmed(c) == [ded |-> c.ded, days |-> c.days, err |-> "none"]
        Created(r, status) ==
            IF r.err # "none" THEN [ded |-> ded, days |-> days, err |-> r.err]
            ELSE IF status \notin {"late_missing_out", "early_missing_in",
                                   "missing_in", "missing_out"}
                    /\ cfg.auto_confirm_deductions
            THEN Confirmed(Confirm(r.ded, days, r.id))
            ELSE [ded |-> r.ded, days |-> days, err |-> "none"]
        Make(vals) ==
            IF ~vals.exists THEN [ded |-> ded, days |-> days, err |-> "none"]
            ELSE Created(CreateDeduction(ded, vals),
                         AttendanceStatus(att, ot, att[i], cfg.grace_period_minutes))
    IN IF DeductionsOf(ded, i) # {} THEN [ded |-> ded, days |-> days, err |-> "none"]
       ELSE Make(JobDeductionVals(att, ot, i, cfg.grace_period_minutes))

\* the record the job's loop visits first: _order of hr.attendance is check_in desc
FirstOf(att, S) ==
    CHOOSE i \in S : \A j \in S :
        LET ki == IF att[i].check_in = NoTime THEN 8 * DaySec ELSE att[i].check_in
            kj == IF att[j].check_in = NoTime THEN 8 * DaySec ELSE att[j].check_in
        IN i = j \/ ki > kj \/ (ki = kj /\ i < j)

\* the loop of process_daily_deductions over the attendances S
RECURSIVE JobLoop(_, _, _, _, _, _)
JobLoop(att, ot, ded, days, S, cfg) ==
    LET After(i, r) == IF r.err # "none" THEN r
                       ELSE JobLoop(att, ot, r.ded, r.days, S \ {i}, cfg)
        Step(i) == After(i, ProcessAttendanceDeduction(att, ot, ded, days, i, cfg))
    IN IF S = {} THEN [ded |-> ded, days |-> days, err |-> "none"]
       ELSE Step(FirstOf(att, S))

----------------------------------------------------------------------------
(* Initial state *)

Init ==
    /\ attendance = [i \in AttIds |-> EmptyAtt]
    /\ overtime = [o \in OtIds |-> EmptyOt]
    /\ deduction = [d \in DedIds |-> EmptyDed]
    /\ number_of_days \in [AllocIds -> UNION {InitialDays[a] : a \in AllocIds}]
    /\ \A a \in AllocIds : number_of_days[a] \in InitialDays[a]
    /\ config \in [grace_period_minutes : GracePeriods, auto_confirm_deductions : BOOLEAN]
    /\ punch_pool \in Pools
    /\ device = NoDevice
    /\ report = NoReport
    /\ cursor = NoCursor
    /\ err = "none"

\* an operation that raised: the transaction is rolled back, the error is reported
Raise(e) ==
    /\ err' = e
    /\ UNCHANGED <<attendance, overtime, deduction, number_of_days, config, punch_pool, device, report, cursor>>

Punches == punch_pool \cup {NoTime}

----------------------------------------------------------------------------
(* hr.attendance operations *)

\* _process_overtime, then _process_leave_deduction on record i of the table att
AfterStore(att, i, pick) ==
    LET Both(o, l) == [att |-> l.att, ot |-> o.ot, ded |-> l.ded, err |-> l.err]
        Leave(o) ==
            IF o.err # "none" THEN [att |-> att, ot |-> overtime, ded |-> deduction, err |-> o.err]
            ELSE Both(o, ProcessLeaveDeduction(o.att, o.ot, deduction, i,
                                               config.grace_period_minutes))
    IN Leave(ProcessOvertime(att, overtime, i, pick))

\* the transaction of a create or write ends: commit, or roll back and report
Commit(r) ==
    /\ r.err # "bound"
    /\ IF r.err # "none" THEN Raise(r.err)
       ELSE /\ attendance' = r.att
            /\ overtime' = r.ot
            /\ deduction' = r.ded
            /\ err' = "none"
            /\ UNCHANGED <<number_of_days, config, punch_pool, device, report, cursor>>

Store(att, i, pick) == Commit(AfterStore(att, i, pick))

\* HrAttendance.create({employee_id, check_in, check_out})
AttendanceCreate(e, ci, co) ==
    LET i == FreeId(attendance, ManualIds)
        rec == [EmptyAtt EXCEPT !.exists = TRUE, !.employee_id = e,
                                !.check_in = ci, !.check_out = co]
    IN /\ i # NULL
       /\ ci # NoTime \/ co # NoTime
       /\ IF ci # NoTime /\ co # NoTime /\ co < ci THEN Raise("check_out_before_check_in")
          ELSE \E pick \in OvertimePick(overtime, e, UtcDate(ci)) :
                   Store([attendance EXCEPT ![i] = rec], i, pick)

\* HrAttendance.write(vals) with check_in and/or check_out in vals
AttendanceWrite(i, ci, co) ==
    LET old == attendance[i]
        flag == IF ci = NoTime /\ co # NoTime THEN TRUE
                ELSE IF ci # NoTime THEN FALSE ELSE old.missing_check_in
        rec == [old EXCEPT !.check_in = ci, !.check_out = co, !.missing_check_in = flag]
    IN /\ old.exists
       /\ ci # NoTime \/ co # NoTime
       /\ IF ci # NoTime /\ co # NoTime /\ co < ci THEN Raise("check_out_before_check_in")
          ELSE \E pick \in OvertimePick(overtime, old.employee_id, UtcDate(ci)) :
                   Store([attendance EXCEPT ![i] = rec], i, pick)

\* a write of missing_request_state alone: no check_in or check_out in vals,
\* nothing is reprocessed
WriteRequestState(i, state) ==
    /\ attendance' = [attendance EXCEPT ![i].missing_request_state = state]
    /\ err' = "none"
    /\ UNCHANGED <<overtime, deduction, number_of_days, config, punch_pool, device,
                   report, cursor>>

\* action_request_missing_approval on record i
ActionRequestMissingApproval(i) ==
    /\ attendance[i].exists
    /\ \/ attendance[i].missing_check_in
       \/ attendance[i].check_in = NoTime /\ attendance[i].check_out # NoTime
       \/ attendance[i].check_out = NoTime
    /\ WriteRequestState(i, "pending")

\* action_approve_missing on record i
ActionApproveMissing(i) ==
    /\ attendance[i].exists
    /\ attendance[i].missing_request_state = "pending"
    /\ WriteRequestState(i, "approved")

\* action_reject_missing on record i
ActionRejectMissing(i) ==
    /\ attendance[i].exists
    /\ attendance[i].missing_request_state = "pending"
    /\ WriteRequestState(i, "rejected")

----------------------------------------------------------------------------
(* hr.overtime operations *)

\* HrOvertime.create({employee_id, date}) from the form or RPC
OvertimeCreate(e, date) ==
    LET o == FreeId(overtime, OtIds)
        created == [overtime EXCEPT ![o] = [exists |-> TRUE, employee_id |-> e,
                                            date |-> date, state |-> "draft"]]
    IN /\ o # NULL
       /\ IF ~CheckUniqueDateEmployee(attendance, created, o) THEN Raise("duplicate_overtime")
          ELSE /\ overtime' = created
               /\ err' = "none"
               /\ UNCHANGED <<attendance, deduction, number_of_days, config, punch_pool, device, report, cursor>>

OvertimeSetState(o, from, to) ==
    /\ overtime[o].exists
    /\ IF overtime[o].state \notin from THEN Raise("state_error")
       ELSE /\ overtime' = [overtime EXCEPT ![o].state = to]
            /\ err' = "none"
            /\ UNCHANGED <<attendance, deduction, number_of_days, config, punch_pool, device, report, cursor>>

OvertimeSubmit(o) == OvertimeSetState(o, {"draft"}, "submitted")

OvertimeApprove(o) == OvertimeSetState(o, {"submitted"}, "approved")

OvertimeReject(o) == OvertimeSetState(o, {"submitted"}, "rejected")

\* action_reset_to_draft checks no state
OvertimeResetToDraft(o) ==
    OvertimeSetState(o, {"draft", "submitted", "approved", "rejected", "paid"}, "draft")

----------------------------------------------------------------------------
(* leave.deduction operations *)

DeductionResult(r) ==
    /\ r.err # "bound"
    /\ IF r.err # "none" THEN Raise(r.err)
       ELSE /\ deduction' = r.ded
            /\ number_of_days' = r.days
            /\ err' = "none"
            /\ UNCHANGED <<attendance, overtime, config, punch_pool, device, report, cursor>>

\* process_daily_deductions(date)
ProcessDailyDeductions(date) ==
    LET Run(S) == /\ S # {}
                  /\ DeductionResult(JobLoop(attendance, overtime, deduction,
                                             number_of_days, S, config))
    IN Run(JobAttendances(attendance, overtime, date, config.grace_period_minutes))

ActionConfirm(d) ==
    /\ deduction[d].exists
    /\ DeductionResult(Confirm(deduction, number_of_days, d))

ActionDeduct(d) ==
    /\ deduction[d].exists
    /\ DeductionResult(Deduct(deduction, number_of_days, d))

ActionCancel(d) ==
    /\ deduction[d].exists
    /\ DeductionResult(Cancel(deduction, number_of_days, d))

ActionResetToDraft(d) ==
    /\ deduction[d].exists
    /\ IF deduction[d].state # "cancelled" THEN Raise("state_error")
       ELSE DeductionResult([ded |-> [deduction EXCEPT ![d].state = "draft"],
                             days |-> number_of_days, err |-> "none"])

----------------------------------------------------------------------------
(* attendance.device: the punches a pull considers and their grouping *)

\* ts_local.hour of an instant in the zone of the device (Asia/Ho_Chi_Minh)
LocalHour(t) == ((t + TzOffsetSec) % DaySec) \div 3600

\* auto_detect_punch_type
AutoDetectPunchType(t) == IF LocalHour(t) < 12 THEN "check_in" ELSE "check_out"

\* force_reload: a pull range is set on the device
ForceReload(pull_start, pull_end) == pull_start # NoTime \/ pull_end # NoTime

\* within_range(ts)
WithinRange(t, pull_start, pull_end) ==
    /\ pull_start = NoTime \/ t >= pull_start
    /\ pull_end = NoTime \/ t <= pull_end

\* is_new(ts)
IsNew(t, last_log_timestamp, force_reload) ==
    force_reload \/ last_log_timestamp = NoTime \/ t > last_log_timestamp

\* the punches of the log that pass within_range and is_new
Considered(dev, pull_start, pull_end) ==
    { t \in dev.log : /\ WithinRange(t, pull_start, pull_end)
                      /\ IsNew(t, dev.last_log_timestamp,
                               ForceReload(pull_start, pull_end)) }

\* groups[(emp_id, day)]: the considered punches of one local day
Group(punches, day) == { t \in punches : LocalDate(t) = day }

\* check_in_punch of a group: the only punch when it is typed check_in, the first
\* punch when there are several; the second operator replaces it in a mutant
GroupCheckInByType(punches) ==
    IF AutoDetectPunchType(SetMin(punches)) = "check_in" THEN SetMin(punches) ELSE NoTime

GroupCheckIn(punches) ==
    IF Cardinality(punches) = 1
    THEN IF AutoDetectPunchType(SetMin(punches)) = "check_in" THEN SetMin(punches) ELSE NoTime
    ELSE SetMin(punches)

\* check_out_punch of a group
GroupCheckOut(punches) ==
    IF Cardinality(punches) = 1
    THEN IF AutoDetectPunchType(SetMax(punches)) = "check_in" THEN NoTime ELSE SetMax(punches)
    ELSE SetMax(punches)

OnLocalDay(t, day) == t # NoTime /\ LocalDate(t) = day

\* the search of the records of employee e with a punch in the window of the local day
DayRecords(att, e, day) ==
    { i \in AttIds : /\ att[i].exists
                     /\ att[i].employee_id = e
                     /\ (OnLocalDay(att[i].check_in, day) \/ OnLocalDay(att[i].check_out, day)) }

\* old_day_records of a forced reload: the device-imported records of the day
OldDayRecords(att, e, day) ==
    { i \in DayRecords(att, e, day) : att[i].import_source = "f18_machine" }

\* non_deletable: the records that carry a leave deduction
NonDeletable(att, old) == { i \in old : att[i].leave_deduction_id # NULL }

\* existing of a forced reload: the record to overwrite, NULL for none
ReloadTarget(att, old) ==
    IF NonDeletable(att, old) # {} THEN FirstOf(att, NonDeletable(att, old))
    ELSE IF old # {} THEN FirstOf(att, old) ELSE NULL

\* an unlinkable that takes every other record of the day
UnlinkableAll(att, old, existing) == { i \in old : i # existing }

\* unlinkable: the other records of the day without a leave deduction
Unlinkable(att, old, existing) ==
    { i \in old : att[i].leave_deduction_id = NULL /\ i # existing }

----------------------------------------------------------------------------
(* attendance.device: storing the groups.  A database is [att, ot, ded, err]. *)

\* unlink of the attendances S; leave.deduction.attendance_id is required and so
\* restricts the deletion of a record a deduction refers to
UnlinkAttendances(db, S) ==
    IF \E i \in S : DeductionsOf(db.ded, i) # {}
    THEN [db EXCEPT !.err = "attendance_referenced"]
    ELSE [db EXCEPT !.att = [i \in AttIds |-> IF i \in S THEN EmptyAtt ELSE db.att[i]]]

\* _process_overtime, then _process_leave_deduction on record i, whose fields att
\* already holds; an error leaves what was stored before it
Reprocess(db, att, i, grace) ==
    LET Both(o, l) == [att |-> l.att, ot |-> o.ot, ded |-> l.ded, err |-> l.err]
        Leave(o) ==
            IF o.err # "none" THEN [att |-> att, ot |-> db.ot, ded |-> db.ded, err |-> o.err]
            ELSE Both(o, ProcessLeaveDeduction(o.att, o.ot, db.ded, i, grace))
    IN Leave(ProcessOvertime(att, db.ot, i,
                             CHOOSE p \in OvertimePick(db.ot, att[i].employee_id,
                                                       UtcDate(att[i].check_in)) : TRUE))

\* existing.write(attendance_data): only the punches the group has are in the values
ImportWrite(db, i, ci, co, grace) ==
    LET old == db.att[i]
        new_in == IF ci # NoTime THEN ci ELSE old.check_in
        new_out == IF co # NoTime THEN co ELSE old.check_out
        flag == IF new_in = NoTime /\ new_out # NoTime THEN TRUE
                ELSE IF new_in # NoTime THEN FALSE ELSE old.missing_check_in
        rec == [old EXCEPT !.import_source = "f18_machine", !.check_in = new_in,
                           !.check_out = new_out, !.missing_check_in = flag]
    IN IF new_in # NoTime /\ new_out # NoTime /\ new_out < new_in
       THEN [db EXCEPT !.err = "check_out_before_check_in"]
       ELSE Reprocess(db, [db.att EXCEPT ![i] = rec], i, grace)

\* Attendance.create(attendance_data) of the device
ImportCreate(db, e, ci, co, grace) ==
    LET rec == [EmptyAtt EXCEPT !.exists = TRUE, !.employee_id = e, !.check_in = ci,
                                !.check_out = co, !.import_source = "f18_machine"]
        Insert(i) == IF i = NULL THEN [db EXCEPT !.err = "bound"]
                     ELSE Reprocess(db, [db.att EXCEPT ![i] = rec], i, grace)
    IN Insert(FreeId(db.att, AttIds))

\* the body of the loop over groups for the punches of employee e on a local day.
\* An error of the write or create is caught (err "caught") and the loop goes on
\* with what was stored before it; an error of the unlink is not caught by the
\* inner try.
PullGroup(db, e, day, punches, force_reload, grace) ==
    LET Caught(r) == IF r.err \in {"none", "bound"} THEN r ELSE [r EXCEPT !.err = "caught"]
        Upsert(d, existing) ==
            IF existing # NULL
            THEN Caught(ImportWrite(d, existing, GroupCheckIn(punches),
                                    GroupCheckOut(punches), grace))
            ELSE Caught(ImportCreate(d, e, GroupCheckIn(punches),
                                     GroupCheckOut(punches), grace))
        Reload(old, existing) ==
            LET After(d) == IF d.err # "none" THEN d ELSE Upsert(d, existing)
            IN After(UnlinkAttendances(db, Unlinkable(db.att, old, existing)))
        Incremental(found) ==
            Upsert(db, IF found = {} THEN NULL ELSE FirstOf(db.att, found))
    IN IF force_reload
       THEN Reload(OldDayRecords(db.att, e, day),
                   ReloadTarget(db.att, OldDayRecords(db.att, e, day)))
       ELSE Incremental(DayRecords(db.att, e, day))

\* the loop over the groups, in the order of the log
RECURSIVE PullLoop(_, _, _, _, _)
PullLoop(db, e, punches, force_reload, grace) ==
    LET Marked(r, next) ==
            IF r.err = "caught" /\ next.err = "none" THEN [next EXCEPT !.err = "caught"]
            ELSE next
        Rest(day, r) ==
            IF r.err \notin {"none", "caught"} THEN r
            ELSE Marked(r, PullLoop([r EXCEPT !.err = "none"], e,
                                    punches \ Group(punches, day), force_reload, grace))
        Step(day) == Rest(day, PullGroup(db, e, day, Group(punches, day), force_reload, grace))
    IN IF punches = {} THEN db
       ELSE Step(LocalDate(SetMin(punches)))

\* action_pull_attendance of a device with the pull range given: the database and
\* the device fields it leaves, and whether the storing of a day failed
PullAttendance(db, dev, pull_start, pull_end, grace) ==
    LET punches == Considered(dev, pull_start, pull_end)
        Done(r) == [db |-> IF r.err = "caught" THEN [r EXCEPT !.err = "none"] ELSE r,
                    dev |-> IF r.err \notin {"none", "caught"} THEN dev
                            ELSE [dev EXCEPT !.last_log_timestamp =
                                                 IF punches # {} THEN SetMax(punches) ELSE @,
                                             !.last_pull_success = TRUE],
                    failed |-> r.err = "caught"]
    IN Done(PullLoop(db, CHOOSE e \in Employees : TRUE, punches,
                     ForceReload(pull_start, pull_end), grace))

\* the tables of the database as a record, and the step that stores one back
Database == [att |-> attendance, ot |-> overtime, ded |-> deduction, err |-> "none"]

Stored(db) ==
    /\ db.err # "bound"
    /\ IF db.err # "none" THEN Raise(db.err)
       ELSE /\ attendance' = db.att
            /\ overtime' = db.ot
            /\ deduction' = db.ded
            /\ err' = "none"
            /\ UNCHANGED <<number_of_days, config, punch_pool, report, cursor>>

\* the terminal records a punch of the employee
DevicePunch(t) ==
    /\ t \notin device.log
    /\ device' = [device EXCEPT !.log = @ \cup {t}]
    /\ UNCHANGED <<attendance, overtime, deduction, number_of_days, config, punch_pool,
                   report, cursor, err>>

\* action_pull_attendance with pull_start and pull_end set on the device (NoTime: unset).
\* The error of an unlink leaves the method and the transaction is rolled back.
DevicePull(pull_start, pull_end) ==
    LET Finish(r) == /\ Stored(r.db)
                     /\ device' = r.dev
    IN /\ device.log # {}
       /\ Finish(PullAttendance(Database, device, pull_start, pull_end,
                                config.grace_period_minutes))

----------------------------------------------------------------------------
(* attendance.import.line *)

\* the last open attendance of the employee: check_out unset, order check_in desc
LastOpenAttendance(att, e) ==
    { i \in AttIds : att[i].exists /\ att[i].employee_id = e /\ att[i].check_out = NoTime }

\* the placeholder check-in of a check-out line without an open attendance
PlaceholderHours == 8

\* the try block of action_process of a line (employee e, check_time, check_type):
\* err is "exists" when the line is skipped, the error raised when one is raised
LineAttempt(db, e, check_time, check_type, grace) ==
    LET Create(i, rec) == IF i = NULL THEN [db EXCEPT !.err = "bound"]
                          ELSE Reprocess(db, [db.att EXCEPT ![i] = rec], i, grace)
        Close(i) ==
            IF db.att[i].check_in # NoTime /\ check_time < db.att[i].check_in
            THEN [db EXCEPT !.err = "check_out_before_check_in"]
            ELSE Reprocess(db, [db.att EXCEPT ![i].check_out = check_time,
                                              ![i].missing_check_in =
                                                  IF db.att[i].check_in = NoTime THEN TRUE
                                                  ELSE FALSE],
                           i, grace)
    IN IF \E i \in AttIds : /\ db.att[i].exists
                            /\ db.att[i].employee_id = e
                            /\ db.att[i].check_in = check_time
       THEN [db EXCEPT !.err = "exists"]
       ELSE IF check_type \in {"1", "3"}
       THEN Create(FreeId(db.att, AttIds),
                   [EmptyAtt EXCEPT !.exists = TRUE, !.employee_id = e, !.check_in = check_time])
       ELSE IF LastOpenAttendance(db.att, e) # {}
       THEN Close(FirstOf(db.att, LastOpenAttendance(db.att, e)))
       ELSE Create(FreeId(db.att, AttIds),
                   [EmptyAtt EXCEPT !.exists = TRUE, !.employee_id = e,
                                    !.check_in = check_time - PlaceholderHours * 3600,
                                    !.check_out = check_time, !.missing_check_in = TRUE])

\* action_process of a line: every error is caught by the method and what was
\* stored before it stays
LineProcess(db, e, check_time, check_type, grace) ==
    LET Caught(r) == IF r.err \in {"none", "bound"} THEN r ELSE [r EXCEPT !.err = "none"]
    IN Caught(LineAttempt(db, e, check_time, check_type, grace))

\* what action_process returns: True unless the line was skipped or raised
LineReturn(db, e, check_time, check_type, grace) ==
    LineAttempt(db, e, check_time, check_type, grace).err = "none"

\* _process_attendance_data on one record of an import
ImportLineProcess(e, check_time, check_type) ==
    /\ Stored(LineProcess(Database, e, check_time, check_type, config.grace_period_minutes))
    /\ UNCHANGED device

----------------------------------------------------------------------------
(* leave.deduction: confirmations in concurrent requests *)

\* request p starts its transaction on deduction d: it reads the rows as they are
\* committed now
RequestBegin(p, d) ==
    /\ ~cursor[p].open
    /\ deduction[d].exists
    /\ cursor' = [cursor EXCEPT ![p] = [open |-> TRUE, deduction_id |-> d,
                                         deduction |-> deduction,
                                         number_of_days |-> number_of_days]]
    /\ UNCHANGED <<attendance, overtime, deduction, number_of_days, config, punch_pool,
                   device, report, err>>

\* a commit that writes over the rows whatever was committed since the
\* transaction began
CommitUnchecked(p, r) ==
    /\ deduction' = [deduction EXCEPT ![cursor[p].deduction_id] = r.ded[cursor[p].deduction_id]]
    /\ number_of_days' =
           [a \in AllocIds |-> IF r.days[a] # cursor[p].number_of_days[a] THEN r.days[a]
                               ELSE number_of_days[a]]
    /\ err' = "none"

\* the commit of the rows r of request p: an update of a row that another
\* transaction changed since this one began is refused and the request rolls back
CommitRows(p, r) ==
    IF \/ deduction[cursor[p].deduction_id] # cursor[p].deduction[cursor[p].deduction_id]
       \/ \E a \in AllocIds : /\ r.days[a] # cursor[p].number_of_days[a]
                               /\ number_of_days[a] # cursor[p].number_of_days[a]
    THEN /\ err' = "serialization_failure"
         /\ UNCHANGED <<deduction, number_of_days>>
    ELSE CommitUnchecked(p, r)

\* request p runs action_confirm on what it read and ends its transaction
RequestConfirm(p) ==
    LET End(r) ==
            /\ r.err # "bound"
            /\ IF r.err # "none"
               THEN err' = r.err /\ UNCHANGED <<deduction, number_of_days>>
               ELSE CommitRows(p, r)
    IN /\ cursor[p].open
       /\ End(Confirm(cursor[p].deduction, cursor[p].number_of_days, cursor[p].deduction_id))
       /\ cursor' = [cursor EXCEPT ![p] = NoCursor[p]]
       /\ UNCHANGED <<attendance, overtime, config, punch_pool, device, report>>

----------------------------------------------------------------------------
(* attendance.import: a batch of records *)

\* the active employees; the second has no leave allocation
BatchEmployees == {1, 2}

\* a check_time text that no format parses
Unparsable == -2

\* _find_employee(user_id): NULL when no employee has the identifier
FindEmployee(user_id) == IF user_id \in BatchEmployees THEN user_id ELSE NULL

\* _parse_datetime of a text that reads as the local wall-clock second x
ParseDatetime(x) == IF x = Unparsable THEN NoTime ELSE x - TzOffsetSec

\* the loop of _process_attendance_data that stops at the first record that fails
\* or has no employee
RECURSIVE AttendanceDataUntilFailure(_, _, _, _)
AttendanceDataUntilFailure(db, rep, data, grace) ==
    LET Counted(field) == [rep EXCEPT ![field] = @ + 1]
        Line(e, t, type) ==
            IF LineAttempt(db, e, t, type, grace).err = "bound"
            THEN [db |-> [db EXCEPT !.err = "bound"], report |-> rep]
            ELSE IF LineReturn(db, e, t, type, grace)
            THEN AttendanceDataUntilFailure(LineProcess(db, e, t, type, grace),
                                            Counted("processed_records"), Tail(data), grace)
            ELSE [db |-> LineProcess(db, e, t, type, grace),
                  report |-> Counted("failed_records")]
        Record(rec) ==
            IF FindEmployee(rec.user_id) = NULL
            THEN [db |-> db, report |-> Counted("skipped_records")]
            ELSE IF ParseDatetime(rec.check_time) = NoTime
            THEN [db |-> db, report |-> Counted("failed_records")]
            ELSE Line(FindEmployee(rec.user_id), ParseDatetime(rec.check_time), rec.check_type)
    IN IF data = <<>> THEN [db |-> db, report |-> rep]
       ELSE Record(Head(data))

\* _process_attendance_data: the loop over the records with its counters
RECURSIVE ProcessAttendanceData(_, _, _, _)
ProcessAttendanceData(db, rep, data, grace) ==
    LET Counted(field) == [rep EXCEPT ![field] = @ + 1]
        Line(e, t, type) ==
            IF LineAttempt(db, e, t, type, grace).err = "bound"
            THEN [db |-> [db EXCEPT !.err = "bound"], report |-> rep]
            ELSE IF LineReturn(db, e, t, type, grace)
            THEN ProcessAttendanceData(LineProcess(db, e, t, type, grace),
                                       Counted("processed_records"), Tail(data), grace)
            ELSE ProcessAttendanceData(LineProcess(db, e, t, type, grace),
                                       Counted("failed_records"), Tail(data), grace)
        Record(rec) ==
            IF FindEmployee(rec.user_id) = NULL
            THEN ProcessAttendanceData(db, Counted("skipped_records"), Tail(data), grace)
            ELSE IF ParseDatetime(rec.check_time) = NoTime
            THEN ProcessAttendanceData(db, Counted("failed_records"), Tail(data), grace)
            ELSE Line(FindEmployee(rec.user_id), ParseDatetime(rec.check_time), rec.check_type)
    IN IF data = <<>> THEN [db |-> db, report |-> rep]
       ELSE Record(Head(data))

\* an import of the records data: total_records, then the loop
ImportData(db, data, grace) ==
    ProcessAttendanceData(db, [NoReport EXCEPT !.total_records = Len(data)], data, grace)

\* _import_from_csv with a file of the records data
ImportBatch(data) ==
    LET Finish(r) ==
            /\ r.db.err = "none"
            /\ attendance' = r.db.att
            /\ overtime' = r.db.ot
            /\ deduction' = r.db.ded
            /\ report' = r.report
            /\ err' = "none"
            /\ UNCHANGED <<number_of_days, config, punch_pool, device, cursor>>
    IN Finish(ImportData(Database, data, config.grace_period_minutes))

----------------------------------------------------------------------------
(* hr.overtime: the daily job *)

\* the loop of calculate_daily_overtime over the employees S in the order of their
\* ids; pick[e] is the row the search of employee e returns; an error of one
\* employee is logged and the loop goes on
RECURSIVE OvertimeJobLoop(_, _, _, _, _)
OvertimeJobLoop(att, ot, S, date, pick) ==
    LET After(e, r) ==
            IF r.err = "bound" THEN [att |-> att, ot |-> ot, err |-> "bound"]
            ELSE IF r.err # "none" THEN OvertimeJobLoop(att, ot, S \ {e}, date, pick)
            ELSE OvertimeJobLoop(r.att, r.ot, S \ {e}, date, pick)
        Step(e) == After(e, CalculateEmployeeOvertime(att, ot, e, date, pick[e]))
    IN IF S = {} THEN [att |-> att, ot |-> ot, err |-> "none"]
       ELSE Step(SetMin(S))

\* the rows the searches of the job can return, one for each employee
OvertimePicks(ot, date) ==
    { pick \in [BatchEmployees -> OtIds \cup {NULL}] :
          \A e \in BatchEmployees : pick[e] \in OvertimePick(ot, e, date) }

\* calculate_daily_overtime(date)
CalculateDailyOvertime(date) ==
    LET Finish(r) ==
            /\ r.err = "none"
            /\ attendance' = r.att
            /\ overtime' = r.ot
            /\ err' = "none"
            /\ UNCHANGED <<deduction, number_of_days, config, punch_pool, device,
                           report, cursor>>
    IN \E pick \in OvertimePicks(overtime, date) :
           Finish(OvertimeJobLoop(attendance, overtime, BatchEmployees, date, pick))

----------------------------------------------------------------------------
(* Specification *)

Next ==
    \/ \E e \in Employees, ci \in Punches, co \in Punches : AttendanceCreate(e, ci, co)
    \/ \E i \in AttIds, ci \in Punches, co \in Punches : AttendanceWrite(i, ci, co)
    \/ \E e \in Employees, date \in PoolDates(punch_pool) : OvertimeCreate(e, date)
    \/ \E o \in OtIds : OvertimeSubmit(o)
    \/ \E o \in OtIds : OvertimeApprove(o)
    \/ \E o \in OtIds : OvertimeReject(o)
    \/ \E o \in OtIds : OvertimeResetToDraft(o)
    \/ \E date \in PoolDates(punch_pool) : ProcessDailyDeductions(date)
    \/ \E d \in DedIds : ActionConfirm(d)
    \/ \E d \in DedIds : ActionDeduct(d)
    \/ \E d \in DedIds : ActionCancel(d)
    \/ \E d \in DedIds : ActionResetToDraft(d)

Spec == Init /\ [][Next]_vars

\* attendance and leave deduction around the schedule, under every configuration
InitLeave == Init /\ punch_pool = PoolGrace

NextLeave ==
    \/ \E e \in Employees, ci \in Punches, co \in Punches : AttendanceCreate(e, ci, co)
    \/ \E i \in AttIds, ci \in Punches, co \in Punches : AttendanceWrite(i, ci, co)
    \/ \E date \in PoolDates(punch_pool) : ProcessDailyDeductions(date)
    \/ \E d \in DedIds : ActionConfirm(d)
    \/ \E d \in DedIds : ActionDeduct(d)
    \/ \E d \in DedIds : ActionCancel(d)
    \/ \E d \in DedIds : ActionResetToDraft(d)

SpecLeave == InitLeave /\ [][NextLeave]_vars

\* attendance and overtime records, under the default configuration
DefaultConfig == [grace_period_minutes |-> 15, auto_confirm_deductions |-> FALSE]

InitOvertime ==
    /\ Init
    /\ punch_pool # PoolGrace
    /\ config = DefaultConfig
    /\ \A a \in AllocIds : number_of_days[a] = SetMax(InitialDays[a])

NextOvertime ==
    \/ \E e \in Employees, ci \in Punches, co \in Punches : AttendanceCreate(e, ci, co)
    \/ \E i \in AttIds, ci \in Punches, co \in Punches : AttendanceWrite(i, ci, co)
    \/ \E e \in Employees, date \in PoolDates(punch_pool) : OvertimeCreate(e, date)
    \/ \E o \in OtIds : OvertimeSubmit(o)
    \/ \E o \in OtIds : OvertimeApprove(o)
    \/ \E o \in OtIds : OvertimeReject(o)
    \/ \E o \in OtIds : OvertimeResetToDraft(o)

SpecOvertime == InitOvertime /\ [][NextOvertime]_vars

\* attendance creations and edits only: every overtime record comes from recomputation
NextEdits ==
    \/ \E e \in Employees, ci \in Punches, co \in Punches : AttendanceCreate(e, ci, co)
    \/ \E i \in AttIds, ci \in Punches, co \in Punches : AttendanceWrite(i, ci, co)

SpecEdits == InitOvertime /\ [][NextEdits]_vars

\* attendance rows recorded by the base hr.attendance model before this module was
\* installed: a check-in, an optional later check-out, no deduction and no overtime
Preinstalled ==
    { [EmptyAtt EXCEPT !.exists = TRUE, !.employee_id = r[1], !.check_in = r[2],
                       !.check_out = r[3]] :
        r \in { x \in Employees \X PoolGrace \X (PoolGrace \cup {NoTime}) :
                    x[3] = NoTime \/ x[3] >= x[2] } }

\* the leave operations over a database that may hold a row from before the
\* installation, which only the daily job gives a deduction
InitJob ==
    /\ \E r \in {EmptyAtt} \cup Preinstalled :
           attendance = [i \in AttIds |-> IF i \in ManualIds THEN r ELSE EmptyAtt]
    /\ overtime = [o \in OtIds |-> EmptyOt]
    /\ deduction = [d \in DedIds |-> EmptyDed]
    /\ number_of_days \in [AllocIds -> UNION { InitialDays[a] : a \in AllocIds }]
    /\ \A a \in AllocIds : number_of_days[a] \in InitialDays[a]
    /\ config \in [grace_period_minutes : GracePeriods, auto_confirm_deductions : BOOLEAN]
    /\ punch_pool = PoolGrace
    /\ device = NoDevice
    /\ report = NoReport
    /\ cursor = NoCursor
    /\ err = "none"

SpecJob == InitJob /\ [][NextLeave]_vars

\* the import paths: a terminal whose log grows and is pulled, incrementally or
\* over a range, import lines, and the daily job, over a database that may hold a
\* row from before the installation
PullRanges ==
    { <<NoTime, NoTime>>,
      <<LocalTime(4, 8, 10, 0), NoTime>>, <<LocalTime(4, 17, 0, 0), NoTime>>,
      <<NoTime, LocalTime(4, 8, 10, 0)>>, <<NoTime, LocalTime(4, 17, 0, 0)>> }

\* the check times of the import lines: a Monday morning and the Tuesday evening
LineTimes == { LocalTime(4, 8, 20, 0), LocalTime(5, 17, 30, 0) }

InitImport ==
    /\ \E r \in {EmptyAtt} \cup { x \in Preinstalled : /\ x.check_in = LocalTime(4, 8, 20, 0)
                                                      /\ x.check_out = NoTime } :
           attendance = [i \in AttIds |-> IF i \in ManualIds THEN r ELSE EmptyAtt]
    /\ overtime = [o \in OtIds |-> EmptyOt]
    /\ deduction = [d \in DedIds |-> EmptyDed]
    /\ number_of_days = [a \in AllocIds |-> SetMax(InitialDays[a])]
    /\ config = DefaultConfig
    /\ punch_pool = PoolDevice
    /\ device = NoDevice
    /\ report = NoReport
    /\ cursor = NoCursor
    /\ err = "none"

NextImport ==
    \/ \E t \in punch_pool : DevicePunch(t)
    \/ \E r \in PullRanges : DevicePull(r[1], r[2])
    \/ \E e \in Employees, t \in LineTimes, check_type \in {"0", "1"} :
           ImportLineProcess(e, t, check_type)
    \/ \E date \in PoolDates(punch_pool) : ProcessDailyDeductions(date)

SpecImport == InitImport /\ [][NextImport]_vars

\* the batches: an import of a file of records and the two daily jobs, over an
\* empty database or one that holds a late row of each employee from before the
\* installation, the one of employee 1 still open
PreinstalledPair ==
    [i \in AttIds |->
        IF i = 1 THEN [EmptyAtt EXCEPT !.exists = TRUE, !.employee_id = 2,
                                       !.check_in = LocalTime(4, 8, 30, 0),
                                       !.check_out = LocalTime(4, 17, 0, 0)]
        ELSE IF i = 2 THEN [EmptyAtt EXCEPT !.exists = TRUE, !.employee_id = 1,
                                            !.check_in = LocalTime(4, 8, 20, 0)]
        ELSE EmptyAtt]

\* the rows of an import file: the user id, the local wall-clock text, the type
ImportRecords ==
    { [user_id |-> 1, check_time |-> LocalTime(4, 8, 20, 0) + TzOffsetSec, check_type |-> "1"],
      [user_id |-> 2, check_time |-> LocalTime(4, 8, 30, 0) + TzOffsetSec, check_type |-> "1"],
      [user_id |-> 1, check_time |-> LocalTime(4, 19, 0, 0) + TzOffsetSec, check_type |-> "0"],
      [user_id |-> 1, check_time |-> LocalTime(4, 8, 0, 0) + TzOffsetSec, check_type |-> "0"],
      [user_id |-> 0, check_time |-> LocalTime(4, 8, 20, 0) + TzOffsetSec, check_type |-> "1"],
      [user_id |-> 1, check_time |-> Unparsable, check_type |-> "1"] }

MaxBatch == 2

Batches == UNION { [1..n -> ImportRecords] : n \in 1..MaxBatch }

InitBatch ==
    /\ attendance \in {[i \in AttIds |-> EmptyAtt], PreinstalledPair}
    /\ overtime = [o \in OtIds |-> EmptyOt]
    /\ deduction = [d \in DedIds |-> EmptyDed]
    /\ number_of_days = [a \in AllocIds |-> SetMax(InitialDays[a])]
    /\ config \in [grace_period_minutes : {15}, auto_confirm_deductions : BOOLEAN]
    /\ punch_pool = PoolMove
    /\ device = NoDevice
    /\ report = NoReport
    /\ cursor = NoCursor
    /\ err = "none"

NextBatch ==
    \/ \E data \in Batches : ImportBatch(data)
    \/ \E date \in PoolDates(punch_pool) : CalculateDailyOvertime(date)
    \/ \E date \in PoolDates(punch_pool) : ProcessDailyDeductions(date)
    \/ \E e \in BatchEmployees, date \in PoolDates(punch_pool) : OvertimeCreate(e, date)

SpecBatch == InitBatch /\ [][NextBatch]_vars

\* confirmations in concurrent requests, of the deductions the daily job creates
\* for two late rows of employee 1 from before the installation
PreinstalledLate ==
    [i \in AttIds |->
        IF i = 1 THEN [EmptyAtt EXCEPT !.exists = TRUE, !.employee_id = 1,
                                       !.check_in = LocalTime(4, 8, 20, 0),
                                       !.check_out = LocalTime(4, 17, 0, 0)]
        ELSE IF i = 2 THEN [EmptyAtt EXCEPT !.exists = TRUE, !.employee_id = 1,
                                            !.check_in = LocalTime(5, 8, 30, 0),
                                            !.check_out = LocalTime(5, 17, 0, 0)]
        ELSE EmptyAtt]

InitConcurrent ==
    /\ attendance = PreinstalledLate
    /\ overtime = [o \in OtIds |-> EmptyOt]
    /\ deduction = [d \in DedIds |-> EmptyDed]
    /\ number_of_days \in [AllocIds -> UNION { InitialDays[a] : a \in AllocIds }]
    /\ \A a \in AllocIds : number_of_days[a] \in InitialDays[a]
    /\ config = DefaultConfig
    /\ punch_pool = PoolMove
    /\ device = NoDevice
    /\ report = NoReport
    /\ cursor = NoCursor
    /\ err = "none"

NextConcurrent ==
    \/ \E date \in PoolDates(punch_pool) : ProcessDailyDeductions(date)
    \/ \E p \in Requests, d \in DedIds : RequestBegin(p, d)
    \/ \E p \in Requests : RequestConfirm(p)

SpecConcurrent == InitConcurrent /\ [][NextConcurrent]_vars

\* attendance, the approval of missing punches and the confirmation of deductions
NextApproval ==
    \/ \E e \in Employees, ci \in Punches, co \in Punches : AttendanceCreate(e, ci, co)
    \/ \E i \in AttIds, ci \in Punches, co \in Punches : AttendanceWrite(i, ci, co)
    \/ \E i \in AttIds : ActionRequestMissingApproval(i)
    \/ \E i \in AttIds : ActionApproveMissing(i)
    \/ \E i \in AttIds : ActionRejectMissing(i)
    \/ \E d \in DedIds : ActionConfirm(d)

SpecApproval == InitLeave /\ [][NextApproval]_vars

----------------------------------------------------------------------------
(* Properties *)

\* the days deductions in state 'deducted' hold against allocation a, in 1/1000 day
Charged(ded, a) ==
    SetSum({ <<d, DeductionDays(ded[d])>> :
             d \in { x \in DedIds : /\ ded[x].exists
                                    /\ ded[x].state = "deducted"
                                    /\ ded[x].leave_allocation_id = a } })

\* C1: deduction conservation.  Every step keeps, for each allocation, its balance
\* plus the days of the deductions currently charged to it: action_deduct moves
\* deduction_days from the balance to the deduction, action_cancel of a deducted
\* record moves exactly them back to the same allocation, and action_cancel of a
\* record that is not deducted (a second cancel) changes no balance.
C1_Conservation ==
    [][\A a \in AllocIds :
          number_of_days'[a] + Charged(deduction', a) = number_of_days[a] + Charged(deduction, a)]_vars

\* a deduction that was charged to an allocation and cancelled, the allocation full again
C1_Witness ==
    \E d \in DedIds :
        /\ deduction[d].exists
        /\ deduction[d].state = "cancelled"
        /\ deduction[d].leave_allocation_id # NULL
        /\ DeductionDays(deduction[d]) > 0
        /\ number_of_days[deduction[d].leave_allocation_id]
               = SetMax(InitialDays[deduction[d].leave_allocation_id])
        /\ err = "none"

\* C2: at most one overtime record per (employee, date), whatever the hours and the
\* type of the record that exists already.
C2_UniqueOvertime ==
    \A o \in OtIds, p \in OtIds :
        (overtime[o].exists /\ overtime[p].exists /\ o # p)
            => ~(overtime[o].employee_id = overtime[p].employee_id
                 /\ overtime[o].date = overtime[p].date)

\* C3: at most one leave deduction refers to an attendance record, after any
\* creations, edits of check-in and check-out, and runs of the daily job.
C3_UniqueDeduction ==
    \A i \in AttIds :
        Cardinality({ d \in DedIds : deduction[d].exists /\ deduction[d].attendance_id = i }) <= 1

\* an attendance that was edited after its deduction was created: the deduction still
\* carries the minutes of the earlier punches and no second one was created
C3_Witness ==
    \E i \in AttIds :
        /\ attendance[i].exists
        /\ attendance[i].leave_deduction_id # NULL
        /\ { d \in DedIds : deduction[d].exists /\ deduction[d].attendance_id = i }
               = {attendance[i].leave_deduction_id}
        /\ deduction[attendance[i].leave_deduction_id].late_minutes
               # Positive(LateMinutes(attendance[i]) - config.grace_period_minutes * 100)
        /\ AttendanceStatus(attendance, overtime, attendance[i], config.grace_period_minutes)
               \in JobStatuses
        /\ err = "none"

\* the status the attendance form shows for record i
Status(i) == AttendanceStatus(attendance, overtime, attendance[i], config.grace_period_minutes)

BothPunches(i) ==
    attendance[i].exists /\ attendance[i].check_in # NoTime /\ attendance[i].check_out # NoTime

\* the local date of the check-in is a working weekday, Monday to Friday and no holiday
OnWeekday(i) ==
    /\ Weekday(LocalDate(attendance[i].check_in)) <= 4
    /\ ~IsHoliday(LocalDate(attendance[i].check_in), attendance[i].employee_id)

\* C4: a record with both punches on a weekday is 'overtime' exactly when its daily
\* overtime seconds are at least 1800 or its worked hours exceed 9.5.
C4_WeekdayOvertime ==
    \A i \in AttIds :
        (BothPunches(i) /\ OnWeekday(i))
            => ((Status(i) = "overtime")
                    <=> (DailyOtSeconds(attendance[i]) >= OtThresholdSec
                         \/ WorkedSeconds(attendance[i]) > LongDaySec))

\* seconds the check-in of record i lies after the scheduled check-in
Delay(i) == attendance[i].check_in - ScheduledCheckIn(attendance[i])

\* seconds the check-out of record i lies before the scheduled check-out
Shortfall(i) == ScheduledCheckOut(attendance[i]) - attendance[i].check_out

\* C5: grace asymmetry.  For a weekday record with both punches, a schedule and no
\* overtime, the check-in counts as late exactly when its delay exceeds the grace
\* period, the check-out counts as early for any shortfall above zero, and the status
\* is both_issues, late_in, early_out or normal accordingly.
C5_GraceAsymmetry ==
    \A i \in AttIds :
        (/\ BothPunches(i) /\ OnWeekday(i)
         /\ ScheduledCheckIn(attendance[i]) # NoTime /\ ScheduledCheckOut(attendance[i]) # NoTime
         /\ Status(i) # "overtime")
            => Status(i) =
                  IF Delay(i) > config.grace_period_minutes * 60
                  THEN (IF Shortfall(i) > 0 THEN "both_issues" ELSE "late_in")
                  ELSE (IF Shortfall(i) > 0 THEN "early_out" ELSE "normal")

\* a check-in exactly at the end of the grace period, check-out on time: normal
C5_Witness ==
    \E i \in AttIds :
        /\ BothPunches(i) /\ OnWeekday(i)
        /\ Delay(i) = config.grace_period_minutes * 60
        /\ Shortfall(i) = 0
        /\ Status(i) = "normal"

\* C6: a record with a check-out and no check-in is 'early_missing_in' when the
\* check-out is earlier than the end of the schedule of its day, 'missing_in' otherwise.
C6_EarlyMissingIn ==
    \A i \in AttIds :
        (/\ attendance[i].exists
         /\ attendance[i].check_in = NoTime
         /\ attendance[i].check_out # NoTime
         /\ WorkIntervals(LocalDate(attendance[i].check_out)) # {})
            => Status(i) =
                  IF attendance[i].check_out
                         < SetMax({iv[2] : iv \in WorkIntervals(LocalDate(attendance[i].check_out))})
                  THEN "early_missing_in" ELSE "missing_in"

\* the rule for the raw overtime seconds of a date over the records recs: on a weekday
\* the latest check-out on that local date, counted from 18:00 when at least half an
\* hour after it; on a weekend the positive durations of the records checked in on
\* that local date, summed and capped at four hours
RuleOtSeconds(date, recs) ==
    IF Weekday(date) <= 4
    THEN LET outs == { r.check_out : r \in { x \in recs : x.check_out # NoTime
                                                       /\ LocalDate(x.check_out) = date } }
         IN IF outs # {} /\ SetMax(outs) - LocalTime(date, OtStartHour, 0, 0) >= OtThresholdSec
            THEN SetMax(outs) - LocalTime(date, OtStartHour, 0, 0)
            ELSE 0
    ELSE SetMin({WeekendCapSec,
                 SetSum({ <<r, r.check_out - r.check_in>> :
                          r \in { x \in recs : /\ x.check_in # NoTime /\ x.check_out # NoTime
                                               /\ LocalDate(x.check_in) = date
                                               /\ x.check_out > x.check_in } })})

\* C7: the daily overtime seconds of a record with both punches equal the rule applied
\* to the local date of its check-in and the record.
C7_DailyOtRule ==
    \A i \in AttIds :
        BothPunches(i)
            => DailyOtSeconds(attendance[i])
                   = RuleOtSeconds(LocalDate(attendance[i].check_in), {attendance[i]})

\* C8: on a local Saturday or Sunday, or a holiday, every record with both punches and
\* a positive duration is 'overtime'.
C8_WeekendHolidayOvertime ==
    \A i \in AttIds :
        (/\ BothPunches(i)
         /\ WorkedSeconds(attendance[i]) > 0
         /\ (Weekday(LocalDate(attendance[i].check_in)) >= 5
             \/ IsHoliday(LocalDate(attendance[i].check_in), attendance[i].employee_id)))
            => Status(i) = "overtime"

\* the raw overtime seconds of a date pass the threshold gate of that date
PassesGate(date, secs) ==
    (Weekday(date) <= 4 /\ secs >= OtThresholdSec) \/ (Weekday(date) >= 5 /\ secs > 0)

\* C9: overtime belongs to the local date of the check-in.  A processed record whose
\* overtime on that local date passes the gate is linked to the overtime record of
\* that local date.
C9_LocalDate ==
    \A i \in AttIds :
        (/\ BothPunches(i)
         /\ PassesGate(LocalDate(attendance[i].check_in),
                       RuleOtSeconds(LocalDate(attendance[i].check_in), {attendance[i]})))
            => /\ attendance[i].overtime_id # NULL
               /\ overtime[attendance[i].overtime_id].date = LocalDate(attendance[i].check_in)

\* the raw overtime seconds the recomputation finds for the date of overtime record o
CurrentOtSeconds(o) ==
    ComputeDailyOtSeconds(overtime[o].date,
        { attendance[i] : i \in DayAttendances(attendance, overtime[o].employee_id,
                                               overtime[o].date) })

\* C10: the threshold gate as an invariant.  After attendance creations and edits no
\* draft overtime record is left for a day whose attendance does not pass the gate,
\* and no attendance is linked to an overtime record of such a day.
C10_ThresholdGate ==
    \A o \in OtIds :
        (overtime[o].exists /\ ~PassesGate(overtime[o].date, CurrentOtSeconds(o)))
            => /\ overtime[o].state # "draft"
               /\ \A i \in AttIds : ~(attendance[i].exists /\ attendance[i].overtime_id = o)

\* the attendance records linked to overtime record o
LinkedIds(att, o) == { i \in AttIds : att[i].exists /\ att[i].overtime_id = o }

\* this step stored new punches on a record and recomputed the date of overtime
\* record o, finding its overtime below the threshold gate
RecomputedBelow(o) ==
    \E i \in AttIds :
        /\ err' = "none"
        /\ attendance'[i].exists
        /\ attendance'[i].check_in # NoTime
        /\ <<attendance'[i].check_in, attendance'[i].check_out>>
               # <<attendance[i].check_in, attendance[i].check_out>>
        /\ attendance'[i].employee_id = overtime[o].employee_id
        /\ UtcDate(attendance'[i].check_in) = overtime[o].date
        /\ ~PassesGate(overtime[o].date,
                       ComputeDailyOtSeconds(overtime[o].date,
                           { attendance'[j] : j \in DayAttendances(attendance',
                                 overtime[o].employee_id, overtime[o].date) }))

\* the table of attendances as the recomputation of this step found it: the new
\* punches stored, the links to overtime records not yet touched
BeforeRecompute ==
    [i \in AttIds |-> [attendance'[i] EXCEPT !.overtime_id = attendance[i].overtime_id]]

\* C11: a recomputation that finds a day below the threshold leaves a non-draft
\* overtime record of that day untouched: the record stays, and its state, its
\* linked attendance records and its overtime seconds are what they were.
C11_NonDraftUntouched ==
    [][\A o \in OtIds :
          (/\ overtime[o].exists
           /\ overtime[o].state # "draft"
           /\ LinkedIds(attendance, o) # {}
           /\ RecomputedBelow(o))
              => /\ overtime'[o] = overtime[o]
                 /\ LinkedIds(attendance', o) = LinkedIds(attendance, o)
                 /\ OtSeconds(attendance', overtime', o)
                        = OtSeconds(BeforeRecompute, overtime, o)]_vars

\* the edges of the overtime state machine
OvertimeEdges ==
    { <<"draft", "submitted">>, <<"submitted", "approved">>, <<"submitted", "rejected">>,
      <<"rejected", "draft">>, <<"approved", "paid">> }

\* C12: every state change of an overtime record follows an edge of the state
\* machine; in particular a submitted or approved record never returns to draft.
C12_OvertimeEdges ==
    [][\A o \in OtIds :
          (overtime[o].exists /\ overtime'[o].exists
           /\ overtime'[o].state # overtime[o].state)
              => <<overtime[o].state, overtime'[o].state>> \in OvertimeEdges]_vars

DeductionStates == {"draft", "confirmed", "deducted", "cancelled"}

\* the state changes the leave.deduction actions make
DeductionEdges ==
    { <<"draft", "confirmed">>, <<"draft", "deducted">>, <<"confirmed", "deducted">>,
      <<"cancelled", "draft">> } \cup { <<s, "cancelled">> : s \in DeductionStates }

\* C13: the deduction actions enforce their source state.  Confirm is refused outside
\* draft, deduct outside confirmed and without days to deduct, a deduction returns to
\* draft only from cancelled, cancel is accepted everywhere and ends in cancelled, and
\* a refused action changes no deduction and no allocation balance.
C13_SourceStates ==
    [][\A d \in DedIds :
          deduction[d].exists =>
              /\ deduction[d].state # "draft"
                     => Confirm(deduction, number_of_days, d).err = "state_error"
              /\ deduction[d].state # "confirmed"
                     => Deduct(deduction, number_of_days, d).err = "state_error"
              /\ (deduction[d].state = "confirmed" /\ DeductionDays(deduction[d]) <= 0)
                     => Deduct(deduction, number_of_days, d).err = "no_days"
              /\ Cancel(deduction, number_of_days, d).err = "none"
              /\ Cancel(deduction, number_of_days, d).ded[d].state = "cancelled"
              /\ err' # "none" => UNCHANGED <<deduction, number_of_days>>
              /\ deduction'[d].state # deduction[d].state
                     => <<deduction[d].state, deduction'[d].state>> \in DeductionEdges]_vars

\* an action was refused for its source state on a deduction that is already debited
C13_Witness ==
    /\ err = "state_error"
    /\ \E d \in DedIds : deduction[d].exists /\ deduction[d].state = "deducted"

DebitedTypes == {"late_in", "early_out", "both"}

DashboardTypes == {"missing_in", "missing_out"}

\* action_confirm on deduction d in the current state
Confirmed(d) == Confirm(deduction, number_of_days, d)

\* C14: a successful confirm of a draft late_in, early_out or both deduction runs the
\* debit at once: the deduction ends 'deducted', records the allocation and the
\* allocation loses deduction_days.  A confirm of a missing_in or missing_out deduction
\* ends 'confirmed' and changes no allocation, and no such deduction is ever 'deducted'.
C14_ConfirmDebits ==
    [][\A d \in DedIds :
          /\ (deduction[d].exists /\ deduction[d].state = "draft"
              /\ deduction[d].deduction_type \in DebitedTypes
              /\ Confirmed(d).err = "none")
                 => /\ Confirmed(d).ded[d].state = "deducted"
                    /\ Confirmed(d).ded[d].leave_allocation_id \in AllocIds
                    /\ Confirmed(d).days[Confirmed(d).ded[d].leave_allocation_id]
                           = number_of_days[Confirmed(d).ded[d].leave_allocation_id]
                                 - DeductionDays(deduction[d])
          /\ (deduction[d].exists /\ deduction[d].state = "draft"
              /\ deduction[d].deduction_type \in DebitedTypes
              /\ deduction'[d].state \notin {"draft", "cancelled"})
                 => /\ deduction'[d].state = "deducted"
                    /\ deduction'[d].leave_allocation_id \in AllocIds
                    /\ number_of_days # number_of_days'
          /\ (deduction[d].exists /\ deduction[d].state = "draft"
              /\ deduction[d].deduction_type \in DashboardTypes)
                 => /\ Confirmed(d).err = "none"
                    /\ Confirmed(d).ded[d].state = "confirmed"
                    /\ Confirmed(d).days = number_of_days
          /\ (deduction'[d].exists /\ deduction'[d].deduction_type \in DashboardTypes)
                 => deduction'[d].state # "deducted"]_vars

\* a late or early deduction that a confirm has debited, and a confirmed dashboard one
C14_Witness ==
    \E d \in DedIds :
        /\ deduction[d].exists
        /\ deduction[d].deduction_type \in DebitedTypes
        /\ deduction[d].state = "deducted"
        /\ deduction[d].leave_allocation_id \in AllocIds
        /\ number_of_days[deduction[d].leave_allocation_id]
               < SetMax(InitialDays[deduction[d].leave_allocation_id])

DebitErrors == {"insufficient_balance", "no_allocation"}

\* the debit requested on deduction d, directly or through a confirm, is refused
\* with error e in the current state
DebitRefused(d, e) ==
    /\ deduction[d].exists
    /\ \/ deduction[d].state = "draft" /\ Confirmed(d).err = e
       \/ deduction[d].state = "confirmed"
              /\ Deduct(deduction, number_of_days, d).err = e

\* C15: a debit that finds too few days on the located allocation, or no allocation,
\* is refused without changing a balance and leaves the deduction 'confirmed' for a
\* retry; no balance is ever negative.
C15_RefusedDebit ==
    [][/\ \A a \in AllocIds : number_of_days'[a] >= 0
       /\ err' \in DebitErrors
              => /\ number_of_days' = number_of_days
                 /\ \E d \in DedIds : /\ DebitRefused(d, err')
                                      /\ deduction'[d].state = "confirmed"]_vars

\* the deductible minutes of attendance i: late beyond the grace period, and early
DeductibleLate(i) ==
    Positive(LateMinutes(attendance[i]) - config.grace_period_minutes * 100)

DeductibleEarly(i) == Positive(EarlyMinutes(attendance[i]))

\* the type the rule gives for L late and E early minutes, "none" for no deduction
RuleType(L, E) ==
    IF L > 0 /\ E > 0 THEN "both"
    ELSE IF L > 0 THEN "late_in" ELSE IF E > 0 THEN "early_out" ELSE "none"

\* the values vals are the deduction of the rule for L and E: the type, and
\* deduction_days * 480 = L + E (days in 1/1000, minutes in 1/100)
FollowsRule(vals, L, E) ==
    IF RuleType(L, E) = "none" THEN ~vals.exists
    ELSE /\ vals.exists
         /\ vals.deduction_type = RuleType(L, E)
         /\ DeductionDays(vals) * 48 = L + E

\* attendance i as the deduction paths find it before it has a deduction
Undeducted(i) == [attendance EXCEPT ![i].leave_deduction_id = NULL]

\* C16: for a late_in, early_out or both_issues record the on-create/on-write path
\* and the daily job produce the same deduction, of the type of the rule and with
\* deduction_days * 480 = L + E exactly.
C16_SameDeduction ==
    \A i \in AttIds :
        (/\ attendance[i].exists
         /\ Status(i) \in {"late_in", "early_out", "both_issues"})
            => /\ FollowsRule(AttendanceDeductionVals(Undeducted(i), overtime, i,
                                                      config.grace_period_minutes),
                              DeductibleLate(i), DeductibleEarly(i))
               /\ i \in JobAttendances(attendance, overtime,
                                       UtcDate(attendance[i].check_in),
                                       config.grace_period_minutes)
               /\ JobDeductionVals(attendance, overtime, i, config.grace_period_minutes)
                      = AttendanceDeductionVals(Undeducted(i), overtime, i,
                                                config.grace_period_minutes)

\* the result of a pull of the current log over the range r, from the current database
PullNow(r) == PullAttendance(Database, device, r[1], r[2], config.grace_period_minutes)

\* the check-in and check-out the normalization rule gives the punches G of a day
RuleCheckIn(G) ==
    IF Cardinality(G) >= 2 \/ LocalHour(SetMin(G)) < 12 THEN SetMin(G) ELSE NoTime

RuleCheckOut(G) ==
    IF Cardinality(G) >= 2 \/ LocalHour(SetMax(G)) >= 12 THEN SetMax(G) ELSE NoTime

\* the pull stored the punches G of the local day as the rule says: on a day without
\* a record, one device record with exactly the rule's check-in and check-out; on a
\* day with a record, a group of two or more punches is the check-in and check-out
\* of a device record of the day
GroupNormalized(before, after, e, day, G) ==
    LET Holds(i) == /\ after[i].import_source = "f18_machine"
                    /\ after[i].check_in = RuleCheckIn(G)
                    /\ after[i].check_out = RuleCheckOut(G)
    IN IF DayRecords(before, e, day) = {}
       THEN \E i \in AttIds : DayRecords(after, e, day) = {i} /\ Holds(i)
       ELSE Cardinality(G) >= 2 => \E i \in DayRecords(after, e, day) : Holds(i)

PunchesKept(before, after) ==
    \A i \in AttIds :
        after[i].exists => /\ before[i].exists
                           /\ after[i].check_in = before[i].check_in
                           /\ after[i].check_out = before[i].check_out

\* a pull of the database and device that an earlier pull left
PullAfter(first, r) ==
    PullAttendance(first.db, first.dev, r[1], r[2], config.grace_period_minutes)

\* the punches an incremental pull considers are strictly newer than the watermark
OnlyNewer ==
    \A t \in Considered(device, NoTime, NoTime) :
        device.last_log_timestamp = NoTime \/ t > device.last_log_timestamp

\* C18: import idempotence.  Once a pull has considered the whole log, pulling the
\* same log again, a second and a third time, incrementally or as a forced reload
\* over any range, adds no attendance record and changes no stored check-in or
\* check-out; an incremental pull considers only the punches strictly newer than
\* last_log_timestamp.
C18_Idempotent ==
    LET Third(second, r3) ==
            second.db.err = "none" => PunchesKept(second.db.att, PullAfter(second, r3).db.att)
        Second(first, second) ==
            /\ PunchesKept(first.db.att, second.db.att)
            /\ \A r3 \in PullRanges : Third(second, r3)
        Again(first) ==
            first.db.err = "none" => \A r2 \in PullRanges : Second(first, PullAfter(first, r2))
    IN /\ \A r1 \in PullRanges :
              (device.log # {} /\ Considered(device, r1[1], r1[2]) = device.log)
                  => Again(PullNow(r1))
       /\ OnlyNewer

\* a leave deduction refers to attendance i
Referenced(ded, i) == DeductionsOf(ded, i) # {}

ForcedRanges == { r \in PullRanges : ForceReload(r[1], r[2]) }

\* the attendance table a pull leaves: an error of the unlink rolls the pull back
Outcome(res) == IF res.db.err = "none" THEN res.db.att ELSE attendance

RawPunches == punch_pool \cup LineTimes

\* C20: import never auto-heals a record.  Every stored check-in and check-out is
\* the instant of a raw punch (none is fabricated), and the check-in and check-out
\* of a record fall on the same local day, so that no record left open on one day
\* is closed by a punch of a later day.
C20_OnlyRawPunches ==
    \A i \in AttIds :
        attendance[i].exists =>
            /\ attendance[i].check_in \in RawPunches \cup {NoTime}
            /\ attendance[i].check_out \in RawPunches \cup {NoTime}
            /\ (attendance[i].check_in # NoTime /\ attendance[i].check_out # NoTime)
                   => LocalDate(attendance[i].check_in) = LocalDate(attendance[i].check_out)

\* every resolvable and parsable record of data given its turn on the database,
\* whatever became of the records before it
RECURSIVE EachInTurn(_, _, _)
EachInTurn(db, data, grace) ==
    LET Turn(rec) ==
            IF FindEmployee(rec.user_id) = NULL \/ ParseDatetime(rec.check_time) = NoTime
            THEN db
            ELSE LineProcess(db, FindEmployee(rec.user_id), ParseDatetime(rec.check_time),
                             rec.check_type, grace)
    IN IF data = <<>> \/ db.err # "none" THEN db
       ELSE EachInTurn(Turn(Head(data)), Tail(data), grace)

\* the import of data ends with every record counted once and every record given
\* its turn
BatchImportIsolated(data) ==
    LET Holds(r) ==
            r.db.err = "none" =>
                /\ r.report.total_records = Len(data)
                /\ r.report.processed_records + r.report.failed_records
                       + r.report.skipped_records = r.report.total_records
                /\ r.db = EachInTurn(Database, data, config.grace_period_minutes)
    IN Holds(ImportData(Database, data, config.grace_period_minutes))

\* the daily deduction job of date leaves no attendance it selected, and that
\* calls for a deduction, without one
DeductionJobIsolated(date) ==
    LET Holds(S, r) ==
            r.err = "none" =>
                \A i \in S :
                    JobDeductionVals(attendance, overtime, i, config.grace_period_minutes).exists
                        => DeductionsOf(r.ded, i) # {}
        Run(S) == Holds(S, JobLoop(attendance, overtime, deduction, number_of_days, S, config))
    IN Run(JobAttendances(attendance, overtime, date, config.grace_period_minutes))

\* the daily overtime job of date gives every employee whose own calculation
\* succeeds with a row that row, whatever became of the employees before
OvertimeJobIsolated(date) ==
    LET Given(r, e) ==
            \E o \in OtIds :
                /\ r.ot[o].exists /\ r.ot[o].employee_id = e /\ r.ot[o].date = date
                /\ \A i \in DayAttendances(attendance, e, date) : r.att[i].overtime_id = o
        Holds(pick, r) ==
            r.err = "none" =>
                \A e \in BatchEmployees :
                    LET c == CalculateEmployeeOvertime(attendance, overtime, e, date, pick[e])
                    IN (c.err = "none" /\ c.ret # NULL) => Given(r, e)
    IN \A pick \in OvertimePicks(overtime, date) :
           Holds(pick, OvertimeJobLoop(attendance, overtime, BatchEmployees, date, pick))

\* C21: in the import loop and in the two daily jobs a failing item or an
\* unresolvable employee does not end the batch: every later item is processed,
\* and the counters of the import add up to total_records
C21_BatchIsolation ==
    /\ report.processed_records + report.failed_records + report.skipped_records
           = report.total_records
    /\ \A data \in Batches : BatchImportIsolated(data)
    /\ \A date \in PoolDates(punch_pool) : DeductionJobIsolated(date)
    /\ \A date \in PoolDates(punch_pool) : OvertimeJobIsolated(date)

\* a database on which an import of two records fails on the first and stores the
\* second, and on which the deduction job fails to confirm the deduction of the
\* first attendance and still creates the one of the second
C21_Witness ==
    /\ \E data \in Batches :
           /\ Len(data) = 2
           /\ ParseDatetime(data[1].check_time) = NoTime
           /\ ImportData(Database, data, config.grace_period_minutes).db.err = "none"
           /\ ImportData(Database, data, config.grace_period_minutes).report
                  = [total_records |-> 2, processed_records |-> 1, failed_records |-> 1,
                     skipped_records |-> 0]
           /\ ImportData(Database, data, config.grace_period_minutes).db.att # attendance
    /\ \E i, j \in JobAttendances(attendance, overtime, 4, config.grace_period_minutes) :
           LET S == JobAttendances(attendance, overtime, 4, config.grace_period_minutes)
               r == JobLoop(attendance, overtime, deduction, number_of_days, S, config)
               first == ProcessAttendanceDeduction(attendance, overtime, deduction,
                                                   number_of_days, i, config)
           IN /\ i = FirstOf(attendance, S) /\ j # i
              /\ deduction = [d \in DedIds |-> EmptyDed]
              /\ config.auto_confirm_deductions
              /\ \A d \in DedIds : first.ded[d].state # "deducted"
              /\ first.days = number_of_days
              /\ r.err = "none"
              /\ DeductionsOf(r.ded, i) # {} /\ DeductionsOf(r.ded, j) # {}

C23_LinkConsistent ==
    /\ \A d \in DedIds :
           deduction[d].exists =>
               attendance[deduction[d].attendance_id].leave_deduction_id = d
    /\ err # "duplicate_deduction"

\* C24: no leave deduction is created for an attendance whose status is
\* 'overtime' or 'normal': the create or write that stores such a record gives it
\* no late_in, early_out or both deduction
C24_NoDeductionForOvertime ==
    [][\A i \in AttIds, d \in DedIds :
          (/\ ~deduction[d].exists
           /\ deduction'[d].exists
           /\ deduction'[d].attendance_id = i
           /\ deduction'[d].deduction_type \in {"late_in", "early_out", "both"})
              => AttendanceStatus(attendance', overtime', attendance'[i],
                                  config.grace_period_minutes) \notin {"overtime", "normal"}]_vars

\* C25: approved absences are forgiven regardless of ordering.  Once the request
\* of a record with a missing check-in or check-out is approved, no deduction of
\* that record with positive deduction_days is in draft or confirmed state, where
\* it could still be debited, also when it was created before the approval
C25_ApprovedForgiven ==
    \A i \in AttIds, d \in DedIds :
        (/\ attendance[i].exists
         /\ attendance[i].missing_check_in \/ attendance[i].check_out = NoTime
         /\ attendance[i].missing_request_state = "approved"
         /\ deduction[d].exists
         /\ deduction[d].attendance_id = i
         /\ DeductionDays(deduction[d]) > 0)
            => deduction[d].state \notin {"draft", "confirmed"}

\* C26: punches of one employee and local day that arrive over several
\* incremental pulls give the record the earliest punch as check-in and the latest
\* as check-out, as one pull of all of them does: an incremental pull never
\* replaces the stored check-in of a record of the terminal by a later punch, and
\* never its check-out by an earlier one
C26_IncrementalKeepsEarliest ==
    LET Kept(r) ==
            r.db.err = "none" =>
                \A i \in AttIds :
                    (attendance[i].exists /\ attendance[i].import_source = "f18_machine") =>
                        /\ r.db.att[i].exists
                        /\ attendance[i].check_in # NoTime =>
                               r.db.att[i].check_in <= attendance[i].check_in
                        /\ attendance[i].check_out # NoTime =>
                               r.db.att[i].check_out >= attendance[i].check_out
    IN Kept(PullNow(<<NoTime, NoTime>>))

\* C27: a draft deduction linked to an attendance agrees with the current check-in
\* and check-out of the attendance: its late and early minutes are the current
\* minutes after grace, so that none with positive minutes remains once the
\* record is no longer late or early
C27_DraftFollowsAttendance ==
    \A i \in AttIds, d \in DedIds :
        (/\ attendance[i].exists
         /\ attendance[i].leave_deduction_id = d
         /\ deduction[d].exists
         /\ deduction[d].state = "draft")
            => /\ deduction[d].late_minutes
                     = Positive(LateMinutes(attendance[i]) - config.grace_period_minutes * 100)
               /\ deduction[d].early_minutes = Positive(EarlyMinutes(attendance[i]))

\* attendance i is linked to an overtime record of its employee and of the local
\* day of its check-in that has overtime seconds, at least the threshold on a
\* weekday
LinkedToOvertime(i) ==
    LET Agrees(a, o) ==
            /\ o # NULL
            /\ overtime[o].exists
            /\ overtime[o].employee_id = a.employee_id
            /\ overtime[o].date = LocalDate(a.check_in)
            /\ OtSeconds(attendance, overtime, o) > 0
            /\ Weekday(LocalDate(a.check_in)) <= 4
                   => OtSeconds(attendance, overtime, o) >= OtThresholdSec
    IN Agrees(attendance[i], attendance[i].overtime_id)

\* C28: an attendance whose status is 'overtime' is linked to an overtime record
\* of its employee and day with overtime seconds > 0, and with at least 1800 of
\* them on a weekday
C28_StatusHasOvertimeRecord ==
    \A i \in AttIds :
        (/\ attendance[i].exists
         /\ AttendanceStatus(attendance, overtime, attendance[i],
                             config.grace_period_minutes) = "overtime")
            => LinkedToOvertime(i)

\* C29: the watermark advances only past punches whose record was stored.  When
\* the storing of a day fails during a pull, last_pull_success is False at the
\* end of the pull, and after an incremental pull the punches it considered are
\* considered again by the next one
C29_WatermarkAfterFailure ==
    LET Holds(r, res) ==
            res.failed =>
                /\ ~res.dev.last_pull_success
                /\ r = <<NoTime, NoTime>> =>
                       Considered(device, NoTime, NoTime)
                           \subseteq Considered(res.dev, NoTime, NoTime)
    IN \A r \in PullRanges : Holds(r, PullNow(r))

\* C30: the two definitions of _compute_attendance_status that the module puts
\* on hr.attendance give every record with a check-in the same status
C30_StatusDefinitionsAgree ==
    \A i \in AttIds :
        (attendance[i].exists /\ attendance[i].check_in # NoTime) =>
            ComputeAttendanceStatus(attendance, overtime, attendance[i],
                                    config.grace_period_minutes)
                = AttendanceStatus(attendance, overtime, attendance[i],
                                   config.grace_period_minutes)
====
